---- MODULE Spec2Model ----
(***************************************************************************)
(* A model of the module specifier resolution engine of open-import-file:  *)
(*   src/src/resolver/findFile.ts  (prober and orchestrator)               *)
(*   src/src/resolver/alias.ts     (config loader, cache, alias matcher)   *)
(* Strings are TLA+ strings; a path is a POSIX path string.                *)
(***************************************************************************)
EXTENDS Integers, Sequences, FiniteSets, TLC

(***************************************************************************)
(* JavaScript string primitives used by the sources.                       *)
(***************************************************************************)
\* The value of an absent result (JavaScript's undefined); never a path.
undefined == "<undefined>"

\* s.slice(i - 1, j) with 1-based inclusive bounds, clamped to the string.
Slice(s, i, j) ==
  LET a == IF i < 1 THEN 1 ELSE i
      b == IF j > Len(s) THEN Len(s) ELSE j
  IN IF a > b THEN "" ELSE SubSeq(s, a, b)

CharAt(s, i) == Slice(s, i, i)

StartsWith(s, p) == Len(p) <= Len(s) /\ SubSeq(s, 1, Len(p)) = p

EndsWith(s, p) == Len(p) <= Len(s) /\ SubSeq(s, Len(s) - Len(p) + 1, Len(s)) = p

\* 1-based index of the first occurrence of the character c in s, 0 if none.
IndexOf(s, c) ==
  LET I == {j \in 1..Len(s) : CharAt(s, j) = c}
  IN IF I = {} THEN 0 ELSE CHOOSE j \in I : \A k \in I : j <= k

\* s.split('/')
RECURSIVE Split(_)
Split(s) ==
  LET k == IndexOf(s, "/")
  IN IF k = 0 THEN <<s>>
     ELSE <<SubSeq(s, 1, k - 1)>> \o Split(SubSeq(s, k + 1, Len(s)))

RECURSIVE JoinSegs(_)
JoinSegs(segs) ==
  IF segs = <<>> THEN ""
  ELSE IF Len(segs) = 1 THEN segs[1]
  ELSE segs[1] \o "/" \o JoinSegs(Tail(segs))

(***************************************************************************)
(* Node's path module (posix), as the sources use it.                      *)
(***************************************************************************)
RECURSIVE NormSegs(_, _, _)
NormSegs(segs, acc, allowAboveRoot) ==
  IF segs = <<>> THEN acc
  ELSE LET h == Head(segs)
           t == Tail(segs)
       IN IF h = "" \/ h = "." THEN NormSegs(t, acc, allowAboveRoot)
          ELSE IF h = ".."
            THEN IF Len(acc) > 0 /\ acc[Len(acc)] # ".."
                   THEN NormSegs(t, SubSeq(acc, 1, Len(acc) - 1), allowAboveRoot)
                 ELSE IF allowAboveRoot
                   THEN NormSegs(t, Append(acc, ".."), allowAboveRoot)
                 ELSE NormSegs(t, acc, allowAboveRoot)
          ELSE NormSegs(t, Append(acc, h), allowAboveRoot)

pathIsAbsolute(p) == StartsWith(p, "/")

pathNormalize(p) ==
  IF p = "" THEN "."
  ELSE LET abs == pathIsAbsolute(p)
           trailing == EndsWith(p, "/")
           body == JoinSegs(NormSegs(Split(p), <<>>, ~abs))
       IN IF body = "" THEN (IF abs THEN "/" ELSE IF trailing THEN "./" ELSE ".")
          ELSE (IF abs THEN "/" ELSE "") \o body \o (IF trailing THEN "/" ELSE "")

\* path.join(a, b): empty arguments are skipped, the rest joined and normalized.
pathJoin(a, b) ==
  IF a = "" /\ b = "" THEN "."
  ELSE IF a = "" THEN pathNormalize(b)
  ELSE IF b = "" THEN pathNormalize(a)
  ELSE pathNormalize(a \o "/" \o b)

\* path.resolve(base, p) for an absolute base: no trailing separator.
pathResolve(base, p) ==
  LET full == IF pathIsAbsolute(p) THEN p
              ELSE IF p = "" THEN base ELSE base \o "/" \o p
  IN "/" \o JoinSegs(NormSegs(Split(full), <<>>, FALSE))

\* path.dirname(p): the scan of the source's loop from the end of p.
RECURSIVE DirnameEnd(_, _, _)
DirnameEnd(p, i, matchedSlash) ==
  IF i < 2 THEN 0
  ELSE IF CharAt(p, i) = "/"
    THEN IF ~matchedSlash THEN i ELSE DirnameEnd(p, i - 1, matchedSlash)
  ELSE DirnameEnd(p, i - 1, FALSE)

pathDirname(p) ==
  IF p = "" THEN "."
  ELSE LET hasRoot == CharAt(p, 1) = "/"
           end == DirnameEnd(p, Len(p), TRUE)
       IN IF end = 0 THEN (IF hasRoot THEN "/" ELSE ".")
          ELSE IF hasRoot /\ end = 2 THEN "//"
          ELSE SubSeq(p, 1, end - 1)

(***************************************************************************)
(* alias.ts: the alias matcher, resolveAliasToFiles.                       *)
(*                                                                         *)
(* A config snapshot (CacheEntry) is a record                              *)
(*   [workspaceRoot, tsconfigPaths, baseUrl, webpackAliases, timestamp].   *)
(* tsconfigPaths is the sequence of Object.entries(paths), each            *)
(* [key, vals] with vals a decoded JSON value [kind, items, str];          *)
(* webpackAliases is the sequence of Object.entries(aliases), each         *)
(* [key, target].  An absent table is the empty sequence (the code skips   *)
(* an absent table and iterates over nothing in an empty one); an absent   *)
(* baseUrl is undefined.                                                   *)
(***************************************************************************)
JsonList(items) == [kind |-> "list", items |-> items, str |-> ""]

JsonString(s) == [kind |-> "string", items |-> <<>>, str |-> s]

JsonNull == [kind |-> "null", items |-> <<>>, str |-> ""]

JsonNumber == [kind |-> "number", items |-> <<>>, str |-> ""]

\* The characters the class [-\\^$+?.()|[\]\/{}()] of escapeExceptStar holds.
EscapedChars ==
  {"-", "\\", "^", "$", "+", "?", ".", "(", ")", "|", "[", "]", "/", "{", "}"}

\* Variant: the key goes into the pattern as written, nothing escaped.
escapeNothing(s) == s

\* s.replace(/[-\\^$+?.()|[\]\/{}()]/g, '\\$&')
RECURSIVE escapeExceptStar(_)
escapeExceptStar(s) ==
  IF s = "" THEN ""
  ELSE LET c == CharAt(s, 1)
       IN (IF c \in EscapedChars THEN "\\" \o c ELSE c)
            \o escapeExceptStar(SubSeq(s, 2, Len(s)))

\* escaped.replace(/[*]/g, G) with G the capture group of any characters.
RECURSIVE ReplaceStars(_)
ReplaceStars(s) ==
  IF s = "" THEN ""
  ELSE LET c == CharAt(s, 1)
       IN (IF c = "*" THEN "(.*)" ELSE c) \o ReplaceStars(SubSeq(s, 2, Len(s)))

\* Characters the regular expression's '.' does not match.
LineTerminators == {"\n", "\r"}

(***************************************************************************)
(* The regular expressions the matcher builds: a pattern body is read as   *)
(* a sequence of tokens: a backslash and c is the literal c, the group of  *)
(* any characters is a capture, an unescaped dot is any character but a    *)
(* line terminator, and any other character is itself.                     *)
(* RegexCaptures(pat, s) is the set of captures <<first group, ...>> with  *)
(* which pat matches the whole of s.                                       *)
(***************************************************************************)
RECURSIVE RegexCaptures(_, _)
RegexCaptures(pat, s) ==
  IF pat = "" THEN (IF s = "" THEN {<<>>} ELSE {})
  ELSE IF StartsWith(pat, "(.*)")
    THEN LET rest == SubSeq(pat, 5, Len(pat))
         IN UNION { { <<SubSeq(s, 1, k)>> \o caps :
                        caps \in RegexCaptures(rest, SubSeq(s, k + 1, Len(s))) } :
                    k \in { n \in 0..Len(s) :
                              \A i \in 1..n : CharAt(s, i) \notin LineTerminators } }
  ELSE IF StartsWith(pat, "\\") /\ Len(pat) >= 2
    THEN IF s # "" /\ CharAt(s, 1) = CharAt(pat, 2)
           THEN RegexCaptures(SubSeq(pat, 3, Len(pat)), SubSeq(s, 2, Len(s)))
           ELSE {}
  ELSE IF CharAt(pat, 1) = "."
    THEN IF s # "" /\ CharAt(s, 1) \notin LineTerminators
           THEN RegexCaptures(SubSeq(pat, 2, Len(pat)), SubSeq(s, 2, Len(s)))
           ELSE {}
  ELSE IF s # "" /\ CharAt(s, 1) = CharAt(pat, 1)
    THEN RegexCaptures(SubSeq(pat, 2, Len(pat)), SubSeq(s, 2, Len(s)))
    ELSE {}

\* spec.match(re) for the anchored pattern built from the key:
\* [matched, wildcard] with wildcard = m[1] || '', the first group taken greedily.
KeyMatch(key, spec) ==
  LET caps == RegexCaptures(ReplaceStars(escapeExceptStar(key)), spec)
  IN IF caps = {} THEN [matched |-> FALSE, wildcard |-> ""]
     ELSE [matched |-> TRUE,
           wildcard |-> (CHOOSE c \in caps :
                           \A d \in caps : Len(d[1]) <= Len(c[1]))[1]]

\* The expansion of a replacement string (GetSubstitution) for a plain-string
\* search with no capture groups: $$ is $, $& the match, $` the text before
\* it, $' the text after it; every other character stands for itself.
RECURSIVE GetSubstitution(_, _, _, _)
GetSubstitution(repl, matched, before, after) ==
  IF repl = "" THEN ""
  ELSE LET two == Slice(repl, 1, 2)
           rest2 == Slice(repl, 3, Len(repl))
       IN IF two = "$$" THEN "$" \o GetSubstitution(rest2, matched, before, after)
          ELSE IF two = "$&" THEN matched \o GetSubstitution(rest2, matched, before, after)
          ELSE IF two = "$`" THEN before \o GetSubstitution(rest2, matched, before, after)
          ELSE IF two = "$'" THEN after \o GetSubstitution(rest2, matched, before, after)
          ELSE CharAt(repl, 1)
                 \o GetSubstitution(SubSeq(repl, 2, Len(repl)), matched, before, after)

\* val.replace('*', wildcard): the first '*' only.
ReplaceFirstStar(val, wildcard) ==
  LET k == IndexOf(val, "*")
  IN IF k = 0 THEN val
     ELSE LET before == SubSeq(val, 1, k - 1)
              after == SubSeq(val, k + 1, Len(val))
          IN before \o GetSubstitution(wildcard, "*", before, after) \o after

\* entries.sort((a, b) => b[0].length - a[0].length): a stable sort.
RECURSIVE InsertByKeyLen(_, _)
InsertByKeyLen(e, sorted) ==
  IF sorted = <<>> THEN <<e>>
  ELSE IF Len(Head(sorted).key) < Len(e.key) THEN <<e>> \o sorted
  ELSE <<Head(sorted)>> \o InsertByKeyLen(e, Tail(sorted))

RECURSIVE SortByKeyLenDesc(_)
SortByKeyLenDesc(entries) ==
  IF entries = <<>> THEN <<>>
  ELSE InsertByKeyLen(entries[Len(entries)],
                      SortByKeyLenDesc(SubSeq(entries, 1, Len(entries) - 1)))

\* Variant: the list is returned with its repetitions.
KeepDuplicates(list) == list

\* Array.from(new Set(list)): first occurrences, in order.
RECURSIVE Uniq(_)
Uniq(list) ==
  IF list = <<>> THEN <<>>
  ELSE LET init == Uniq(SubSeq(list, 1, Len(list) - 1))
           last == list[Len(list)]
       IN IF \E i \in 1..Len(init) : init[i] = last THEN init ELSE Append(init, last)

RECURSIVE MapNormalize(_)
MapNormalize(list) ==
  IF list = <<>> THEN <<>>
  ELSE <<pathNormalize(Head(list))>> \o MapNormalize(Tail(list))

RECURSIVE Chars(_)
Chars(s) == IF s = "" THEN <<>> ELSE <<CharAt(s, 1)>> \o Chars(SubSeq(s, 2, Len(s)))

\* What a call produced: a value, or an exception raised to the caller.
Returned(v) == [threw |-> FALSE, value |-> v]

Thrown == [threw |-> TRUE, value |-> <<>>]

\* Step 1 of the matcher (alias.ts 192-201): one candidate per matching
\* bundler alias, over the entries already sorted.
RECURSIVE WebpackCandidates(_, _)
WebpackCandidates(entries, spec) ==
  IF entries = <<>> THEN <<>>
  ELSE LET alias == Head(entries).key
           target == Head(entries).target
           rest == WebpackCandidates(Tail(entries), spec)
       IN IF spec = alias \/ StartsWith(spec, alias \o "/")
            THEN LET remainder == IF spec = alias THEN ""
                                  ELSE Slice(spec, Len(alias) + 2, Len(spec))
                 IN <<pathJoin(target, remainder)>> \o rest
            ELSE rest

\* for (const val of vals): a list yields its items, a string its characters;
\* null and a number are not iterable and raise a TypeError.
Iterate(vals) ==
  IF vals.kind = "list" THEN Returned(vals.items)
  ELSE IF vals.kind = "string" THEN Returned(Chars(vals.str))
  ELSE Thrown

\* c.baseUrl ? path.resolve(c.baseUrl, p) : path.resolve(workspaceRoot, p)
ResolveTarget(c, workspaceRoot, p) ==
  IF c.baseUrl # undefined /\ c.baseUrl # ""
    THEN pathResolve(c.baseUrl, p)
    ELSE pathResolve(workspaceRoot, p)

RECURSIVE WildcardTargets(_, _, _, _)
WildcardTargets(vals, wildcard, c, workspaceRoot) ==
  IF vals = <<>> THEN <<>>
  ELSE <<ResolveTarget(c, workspaceRoot, ReplaceFirstStar(Head(vals), wildcard))>>
         \o WildcardTargets(Tail(vals), wildcard, c, workspaceRoot)

RECURSIVE ExactTargets(_, _, _)
ExactTargets(vals, c, workspaceRoot) ==
  IF vals = <<>> THEN <<>>
  ELSE <<ResolveTarget(c, workspaceRoot, Head(vals))>>
         \o ExactTargets(Tail(vals), c, workspaceRoot)

\* The body of the loop over the path-mapping entries (alias.ts 206-228)
\* for one entry: the candidates it pushes, or the exception it raises.
TsconfigEntryCandidates(entry, spec, c, workspaceRoot) ==
  IF IndexOf(entry.key, "*") # 0
    THEN LET m == KeyMatch(entry.key, spec)
         IN IF ~m.matched THEN Returned(<<>>)
            ELSE LET it == Iterate(entry.vals)
                 IN IF it.threw THEN Thrown
                    ELSE Returned(WildcardTargets(it.value, m.wildcard, c, workspaceRoot))
    ELSE IF spec # entry.key THEN Returned(<<>>)
         ELSE LET it == Iterate(entry.vals)
              IN IF it.threw THEN Thrown
                 ELSE Returned(ExactTargets(it.value, c, workspaceRoot))

\* Step 2 of the matcher (alias.ts 204-229) over the entries already sorted.
RECURSIVE TsconfigCandidates(_, _, _, _)
TsconfigCandidates(entries, spec, c, workspaceRoot) ==
  IF entries = <<>> THEN Returned(<<>>)
  ELSE LET one == TsconfigEntryCandidates(Head(entries), spec, c, workspaceRoot)
       IN IF one.threw THEN Thrown
          ELSE LET rest == TsconfigCandidates(Tail(entries), spec, c, workspaceRoot)
               IN IF rest.threw THEN Thrown
                  ELSE Returned(one.value \o rest.value)

\* Variant: the bundler aliases are walked in the order the config lists them.
WebpackInsertionOrder(entries) == entries

\* The order in which each table is walked: longest key first.
WebpackOrder(entries) == SortByKeyLenDesc(entries)

TsconfigOrder(entries) == SortByKeyLenDesc(entries)

\* resolveAliasToFiles (alias.ts 172-234) once loadAliasesForRoot has
\* returned the snapshot c for workspaceRoot.
resolveAliasToFiles(spec, c, workspaceRoot) ==
  LET wp == WebpackCandidates(WebpackOrder(c.webpackAliases), spec)
      ts == TsconfigCandidates(TsconfigOrder(c.tsconfigPaths), spec, c, workspaceRoot)
  IN IF ts.threw THEN Thrown
     ELSE Returned(Uniq(MapNormalize(wp \o ts.value)))

(***************************************************************************)
(* findFile.ts: the prober and the orchestrator.                           *)
(***************************************************************************)
\* The priority list of suffixes (findFile.ts 5-26).
exts ==
  << "", ".ts", ".js", ".tsx", ".jsx", ".json",
     ".png", ".jpg", ".jpeg", ".svg", ".webp", ".gif", ".bmp", ".ico",
     "/index.ts", "/index.js", "/index.png", "/index.jpg", "/index.svg" >>

\* Bound: the model probes the first MaxExts suffixes of the list.
MaxExts == 3

\* Bound: the number of findFileForImport calls made one after the other.
MaxCalls == 2

Extensions == SubSeq(exts, 1, MaxExts)

\* normalizeImportSpec (findFile.ts 60-64): one layer of matching quotes.
normalizeImportSpec(s) ==
  IF (StartsWith(s, "\"") /\ EndsWith(s, "\"")) \/ (StartsWith(s, "'") /\ EndsWith(s, "'"))
    THEN Slice(s, 2, Len(s) - 1)
    ELSE s

\* spec.split('/').pop() || spec
getBaseNameFromSpec(s) ==
  LET segs == Split(s)
      last == segs[Len(segs)]
  IN IF last # "" THEN last ELSE s

VARIABLES
  files,        \* the paths of the regular files that exist
  loaded,       \* the snapshot loadAliasesForRoot hands to the alias matcher
  faults,       \* the delegates that fail: "stat", "alias", "findFiles"
  rawSpec,      \* the argument spec
  documentUri,  \* the argument documentUri (its fsPath), or undefined
  callNo,       \* the number of the call under way
  pc,           \* where that call stands
  spec,         \* the local spec, once normalized
  base,         \* the base path of the probe under way
  pending,      \* indexes of the existence checks of that probe still in flight
  race,         \* the state of the Promise.race of that probe
  remaining,    \* the alias candidates not probed yet
  aliasCalled,  \* resolveAliasToFiles was invoked by the call under way
  wsCalled,     \* workspace.findFiles was invoked by the call under way
  outcomes      \* how each finished call settled, in order

orchVars ==
  << files, loaded, faults, rawSpec, documentUri, callNo, pc, spec, base,
     pending, race, remaining, aliasCalled, wsCalled, outcomes >>

\* The project root (the workspace folder) of the modelled workspace.
WorkspaceRoot == "/p"

\* vscode.workspace.fs.stat(uri) succeeds for a regular file and for a
\* directory (every directory that holds a file exists).
StatSucceeds(fs, p) ==
  p \in fs \/ \E f \in fs : StartsWith(f, IF EndsWith(p, "/") THEN p ELSE p \o "/")

\* statIfExists (findFile.ts 28-35): a failing stat is "does not exist".
statIfExists(fs, flt, p) == "stat" \notin flt /\ StatSucceeds(fs, p)

\* Variant: the promise of a check that says "does not exist" never settles.
CandidatePromiseNeverRejects(fs, flt, b, i) ==
  IF "stat" \notin flt /\ (b \o Extensions[i]) \in fs
    THEN [state |-> "fulfilled", value |-> b \o Extensions[i]]
    ELSE [state |-> "pending", value |-> undefined]

\* The promise of one element of the race (findFile.ts 47-49): fulfilled
\* with the uri when the check says "exists", rejected otherwise.
CandidatePromise(fs, flt, b, i) ==
  IF statIfExists(fs, flt, b \o Extensions[i])
    THEN [state |-> "fulfilled", value |-> b \o Extensions[i]]
    ELSE [state |-> "rejected", value |-> undefined]

RacePending == [state |-> "pending", value |-> undefined]

\* Promise.race: settled by the first element to settle, fulfilled or
\* rejected, and never changed afterwards.
RaceSettle(r, settled) == IF r.state = "pending" THEN settled ELSE r

\* .catch(() => undefined) on the race (findFile.ts 50).
RaceResult(r) == IF r.state = "fulfilled" THEN r.value ELSE undefined

\* Variant: a relative probe that found nothing goes on to the alias phase.
AfterRelativeProbeFallsThrough(found) ==
  IF found = undefined THEN "alias" ELSE "return"

\* After the relative probe (findFile.ts 71-73): the result is returned
\* whether found or not.
AfterRelativeProbe(found) == "return"

\* Variant: one candidate that is not found ends the loop.
AfterAliasProbeGivesUp(found, rest) ==
  IF found # undefined THEN "return" ELSE "findFiles"

\* After the probe of one alias candidate (findFile.ts 81-86).
AfterAliasProbe(found, rest) ==
  IF found # undefined THEN "return"
  ELSE IF rest # <<>> THEN "next"
  ELSE "findFiles"

\* Variant: no outer try/catch, an exception escapes to the caller.
NoOuterCatch(o) == o

\* The outer try/catch of findFileForImport (findFile.ts 56, 102-104):
\* an exception raised inside becomes the result undefined.
findFileForImportCatch(o) == IF o.threw THEN Returned(undefined) ELSE o

\* Variant: the search lists every workspace file, whatever its name.
FindFilesAnyName(fs, baseName) ==
  { f \in fs : StartsWith(f, WorkspaceRoot \o "/") }

\* What workspace.findFiles('**/' + baseName + '*', '**/node_modules/**', 10)
\* may put first: a workspace file whose name begins with baseName, outside
\* every node_modules tree.
FindFilesMatches(fs, baseName) ==
  { f \in fs :
      LET segs == Split(f)
      IN /\ StartsWith(f, WorkspaceRoot \o "/")
         /\ StartsWith(segs[Len(segs)], baseName)
         /\ \A k \in 1..Len(segs) : segs[k] # "node_modules" }

(***************************************************************************)
(* State of the config loader (alias.ts) and of the runs of the matcher.   *)
(***************************************************************************)
VARIABLES
  now,          \* Date.now(), in milliseconds
  ticks,        \* how many times the clock has advanced
  edits,        \* how many times a config file has been edited
  started,      \* how many loadAliasesForRoot calls have been started
  tsFiles,      \* the tsconfig.json files that exist: path -> decoded contents
  wpFile,       \* the webpack.config.js of the project root
  lastEdit,     \* path -> the time its tsconfig.json was last written
  cache,        \* the module's cache: key -> CacheEntry
  loads,        \* the loadAliasesForRoot calls: caller -> the call's frame
  aliasSpec,    \* the specifier given to the matcher
  aliasEntry,   \* the snapshot given to the matcher
  aliasOut      \* what the matcher returned

(***************************************************************************)
(* State of the runs that compare the two values of the DEBUG flag.        *)
(***************************************************************************)
VARIABLES
  logRaises,    \* console.debug raises when called
  schedule,     \* the completion order: which check of each probe completes
                \* first, and which match workspace.findFiles lists first
  debugRuns     \* the runs made: the value of DEBUG and how the call settled

debugVars == << logRaises, schedule, debugRuns >>

(***************************************************************************)
(* State of the walk of findNearestTsconfig when it is followed one stat   *)
(* at a time.                                                              *)
(***************************************************************************)
VARIABLES
  walkDir,      \* currentDir: the directory the walk stands at
  visited,      \* the directories whose tsconfig.json the walk has looked for
  nearest       \* what findNearestTsconfig returned

walkVars == << walkDir, visited, nearest >>

(***************************************************************************)
(* State of one run of the open command, handleOpenCommand                 *)
(* (extension.ts 35-55), and of the editor it talks to.                    *)
(***************************************************************************)
VARIABLES
  fsEntries,    \* the paths workspace.fs.stat finds
  openArg,      \* uriOrString: the argument the command was invoked with
  openPc,       \* where the handler stands: idle, stat, open, done
  openUri,      \* uri: what normalizeToUri returned
  existence,    \* exists: what fileExists returned, empty before it has
  messages,     \* the error messages shown during this run
  opened,       \* the URIs handed to 'vscode.open' during this run
  openOutcome   \* how the handler's promise settled, undefined while it runs

openVars == << fsEntries, openArg, openPc, openUri, existence, messages, opened,
               openOutcome >>

cacheVars == << now, ticks, edits, started, tsFiles, wpFile, lastEdit, cache, loads >>

aliasVars == << aliasSpec, aliasEntry, aliasOut >>

vars == << orchVars, cacheVars, aliasVars, debugVars, walkVars, openVars >>

(***************************************************************************)
(* The orchestrator, findFileForImport (findFile.ts 55-105), one action    *)
(* per stretch of code between two awaits.                                 *)
(***************************************************************************)
\* The call under way settles: the promise fulfils with o.value, or is
\* rejected when an exception escapes.
Settle(o, s) ==
  /\ outcomes' = Append(outcomes, [rejected |-> o.threw, value |-> o.value,
                                   spec |-> s, aliasCalled |-> aliasCalled,
                                   wsCalled |-> wsCalled])
  /\ pc' = "done"
  /\ pending' = {}
  /\ race' = RacePending
  /\ remaining' = <<>>

\* findFileWithExtensions(b, exts) is called: every existence check is issued.
StartProbe(b, rest, where) ==
  /\ base' = b
  /\ pending' = 1..Len(Extensions)
  /\ race' = RacePending
  /\ remaining' = rest
  /\ pc' = where
  /\ UNCHANGED outcomes

\* workspace.findFiles is called.
StartFindFiles ==
  /\ wsCalled' = TRUE
  /\ pc' = "findFiles"
  /\ pending' = {}
  /\ race' = RacePending
  /\ remaining' = <<>>
  /\ UNCHANGED << base, outcomes >>

\* Variant: the requesting file is not looked at before its use.
NoDocumentUnchecked(doc) == FALSE

\* !documentUri (findFile.ts 68).
NoDocument(doc) == doc = undefined

\* Lines 56-77: from the entry to the first await.
Call ==
  /\ pc = "idle"
  /\ LET s == normalizeImportSpec(rawSpec)
     IN IF rawSpec = ""
          THEN /\ spec' = rawSpec
               /\ UNCHANGED << base, aliasCalled, wsCalled >>
               /\ Settle(findFileForImportCatch(Returned(undefined)), rawSpec)
        ELSE IF StartsWith(s, ".")
          THEN /\ spec' = s
               /\ UNCHANGED << aliasCalled, wsCalled >>
               /\ IF NoDocument(documentUri)
                    THEN /\ UNCHANGED base
                         /\ Settle(findFileForImportCatch(Returned(undefined)), s)
                    ELSE StartProbe(pathJoin(pathDirname(documentUri), s), <<>>, "probeRelative")
        ELSE /\ spec' = s
             /\ aliasCalled' = TRUE
             /\ pc' = "alias"
             /\ UNCHANGED << base, pending, race, remaining, wsCalled, outcomes >>
  /\ UNCHANGED << files, loaded, faults, rawSpec, documentUri, callNo >>
  /\ UNCHANGED << cacheVars, aliasVars, debugVars, walkVars, openVars >>

\* One existence check of the probe under way completes, in any order; the
\* race is settled by the first.  Checks still in flight when the probe has
\* returned complete with no effect and are dropped.
StatCompletes(i) ==
  /\ pc \in {"probeRelative", "probeAlias"}
  /\ i \in pending
  /\ pending' = pending \ {i}
  /\ race' = RaceSettle(race, CandidatePromise(files, faults, base, i))
  /\ UNCHANGED << files, loaded, faults, rawSpec, documentUri, callNo, pc, spec,
                  base, remaining, aliasCalled, wsCalled, outcomes >>
  /\ UNCHANGED << cacheVars, aliasVars, debugVars, walkVars, openVars >>

\* Lines 71-73: the await of the relative probe returns.
RelativeProbeReturns ==
  /\ pc = "probeRelative"
  /\ race.state # "pending"
  /\ LET found == RaceResult(race)
         then == AfterRelativeProbe(found)
     IN IF then = "return"
          THEN /\ Settle(findFileForImportCatch(Returned(found)), spec)
               /\ UNCHANGED << aliasCalled, base >>
          ELSE /\ aliasCalled' = TRUE
               /\ pc' = "alias"
               /\ pending' = {}
               /\ race' = RacePending
               /\ UNCHANGED << base, remaining, outcomes >>
  /\ UNCHANGED << files, loaded, faults, rawSpec, documentUri, callNo, spec, wsCalled >>
  /\ UNCHANGED << cacheVars, aliasVars, debugVars, walkVars, openVars >>

\* Lines 77-87: resolveAliasToFiles returns (or raises), and the loop over
\* the candidates starts.
AliasReturnsFrom(where) ==
  /\ pc = where
  /\ LET r == IF "alias" \in faults THEN Thrown
              ELSE resolveAliasToFiles(spec, loaded, WorkspaceRoot)
     IN IF r.threw
          THEN /\ Settle(findFileForImportCatch(Thrown), spec)
               /\ UNCHANGED << base, wsCalled >>
        ELSE IF Len(r.value) > 0
          THEN /\ StartProbe(Head(r.value), Tail(r.value), "probeAlias")
               /\ UNCHANGED wsCalled
        ELSE StartFindFiles
  /\ UNCHANGED << files, loaded, faults, rawSpec, documentUri, callNo, spec, aliasCalled >>
  /\ UNCHANGED << cacheVars, aliasVars, debugVars, walkVars, openVars >>

\* The matcher's work is followed as one step from the call on.
AliasReturns == AliasReturnsFrom("alias")

\* Lines 81-86: the await of the probe of one alias candidate returns.
AliasProbeReturns ==
  /\ pc = "probeAlias"
  /\ race.state # "pending"
  /\ LET found == RaceResult(race)
         then == AfterAliasProbe(found, remaining)
     IN IF then = "return"
          THEN /\ Settle(findFileForImportCatch(Returned(found)), spec)
               /\ UNCHANGED << base, wsCalled >>
        ELSE IF then = "next"
          THEN /\ StartProbe(Head(remaining), Tail(remaining), "probeAlias")
               /\ UNCHANGED wsCalled
        ELSE StartFindFiles
  /\ UNCHANGED << files, loaded, faults, rawSpec, documentUri, callNo, spec, aliasCalled >>
  /\ UNCHANGED << cacheVars, aliasVars, debugVars, walkVars, openVars >>

\* Lines 91-101: workspace.findFiles returns its list (or raises); only the
\* first element of the list is read.
FindFilesReturns ==
  /\ pc = "findFiles"
  /\ IF "findFiles" \in faults
       THEN Settle(findFileForImportCatch(Thrown), spec)
       ELSE LET m == FindFilesMatches(files, getBaseNameFromSpec(spec))
            IN \E first \in (IF m = {} THEN {undefined} ELSE m) :
                 Settle(findFileForImportCatch(Returned(first)), spec)
  /\ UNCHANGED << files, loaded, faults, rawSpec, documentUri, callNo, spec, base,
                  aliasCalled, wsCalled >>
  /\ UNCHANGED << cacheVars, aliasVars, debugVars, walkVars, openVars >>

\* The caller resolves the same specifier again, with nothing changed.
CallAgain ==
  /\ pc = "done"
  /\ callNo < MaxCalls
  /\ callNo' = callNo + 1
  /\ pc' = "idle"
  /\ spec' = ""
  /\ base' = ""
  /\ aliasCalled' = FALSE
  /\ wsCalled' = FALSE
  /\ UNCHANGED << files, loaded, faults, rawSpec, documentUri, pending, race,
                  remaining, outcomes >>
  /\ UNCHANGED << cacheVars, aliasVars, debugVars, walkVars, openVars >>

(***************************************************************************)
(* The inputs of the orchestrator's specification.                         *)
(***************************************************************************)
NoSnapshot ==
  [workspaceRoot |-> WorkspaceRoot, tsconfigPaths |-> <<>>, baseUrl |-> undefined,
   webpackAliases |-> <<>>, timestamp |-> 0]

\* "@/*": ["s/*", "t/*"] under baseUrl /p.
MappedSnapshot ==
  [workspaceRoot |-> WorkspaceRoot,
   tsconfigPaths |-> << [key |-> "@/*", vals |-> JsonList(<<"s/*", "t/*">>)] >>,
   baseUrl |-> WorkspaceRoot, webpackAliases |-> <<>>, timestamp |-> 0]

RawSpecs == {"", "./u", "'./u'", "@/u", "lib"}

DocumentUris == {undefined, "/p/s/a.ts"}

\* The files that may exist: one per probed suffix of /p/s/u, a file inside
\* the directory /p/s/u, and the second alias target.
FileUniverse ==
  {"/p/s/u" \o Extensions[i] : i \in 1..Len(Extensions)} \cup {"/p/s/u/x.ts", "/p/t/u.ts"}

Faults == {"stat", "alias", "findFiles"}

\* The combinations of failing delegates a run is started with.
FaultSets == {{}, Faults} \cup {{f} : f \in Faults}

IdleDebug ==
  /\ logRaises = FALSE
  /\ schedule = [first |-> << >>, ws |-> undefined]
  /\ debugRuns = << >>

IdleWalk ==
  /\ walkDir = ""
  /\ visited = << >>
  /\ nearest = undefined

IdleOpen ==
  /\ fsEntries = {}
  /\ openArg = [kind |-> "undefined", text |-> "", path |-> ""]
  /\ openPc = "idle"
  /\ openUri = [scheme |-> "", authority |-> "", path |-> ""]
  /\ existence = << >>
  /\ messages = << >>
  /\ opened = << >>
  /\ openOutcome = undefined

IdleCache ==
  /\ now = 0
  /\ ticks = 0
  /\ edits = 0
  /\ started = 0
  /\ tsFiles = << >>
  /\ wpFile = [kind |-> "missing", aliases |-> << >>]
  /\ lastEdit = << >>
  /\ cache = << >>
  /\ loads = << >>

IdleAlias ==
  /\ aliasSpec = ""
  /\ aliasEntry = NoSnapshot
  /\ aliasOut = << >>

IdleOrch ==
  /\ files = {}
  /\ loaded = NoSnapshot
  /\ faults = {}
  /\ rawSpec = ""
  /\ documentUri = undefined
  /\ callNo = 1
  /\ pc = "idle"
  /\ spec = ""
  /\ base = ""
  /\ pending = {}
  /\ race = RacePending
  /\ remaining = << >>
  /\ aliasCalled = FALSE
  /\ wsCalled = FALSE
  /\ outcomes = << >>

Init ==
  /\ files \in SUBSET FileUniverse
  /\ loaded \in {NoSnapshot, MappedSnapshot}
  /\ faults \in FaultSets
  /\ rawSpec \in RawSpecs
  /\ documentUri \in DocumentUris
  /\ callNo = 1
  /\ pc = "idle"
  /\ spec = ""
  /\ base = ""
  /\ pending = {}
  /\ race = RacePending
  /\ remaining = << >>
  /\ aliasCalled = FALSE
  /\ wsCalled = FALSE
  /\ outcomes = << >>
  /\ IdleCache
  /\ IdleAlias
  /\ IdleDebug
  /\ IdleWalk
  /\ IdleOpen

Next ==
  \/ Call
  \/ \E i \in 1..Len(Extensions) : StatCompletes(i)
  \/ RelativeProbeReturns
  \/ AliasReturns
  \/ AliasProbeReturns
  \/ FindFilesReturns
  \/ CallAgain

Spec == Init /\ [][Next]_vars

(***************************************************************************)
(* Properties of the orchestrator and the prober, checked under Spec.      *)
(***************************************************************************)
\* The specifier of the run is relative once normalized.
IsRelative == StartsWith(normalizeImportSpec(rawSpec), ".")

\* join(dirname(f), s) for the requesting file f and the relative specifier s.
RelativeBase == pathJoin(pathDirname(documentUri), normalizeImportSpec(rawSpec))

\* The probed suffixes under which a regular file exists at base path b.
ExistingSuffixes(b) == {i \in 1..Len(Extensions) : (b \o Extensions[i]) \in files}

EarliestSuffix(b) ==
  CHOOSE i \in ExistingSuffixes(b) : \A j \in ExistingSuffixes(b) : i <= j

\* C1: for a relative specifier and a requesting file, when a file exists at
\* join(dirname(f), s) + suffix for some probed suffix, the call returns an
\* existing file at that base path with a probed suffix, whatever the order
\* in which the existence checks complete.
C1_RelativeFileIsFound ==
  \A k \in 1..Len(outcomes) :
    (/\ IsRelative
     /\ documentUri # undefined
     /\ "stat" \notin faults
     /\ ExistingSuffixes(RelativeBase) # {})
    => outcomes[k].value \in
         {RelativeBase \o Extensions[i] : i \in ExistingSuffixes(RelativeBase)}

\* C2: when files exist for two or more suffixes at the base path of a
\* probe, the probe yields the one whose suffix comes earliest in the
\* priority list, whatever the completion order of the checks.
C2_PriorityOrderWins ==
  (/\ pc \in {"probeRelative", "probeAlias"}
   /\ race.state # "pending"
   /\ "stat" \notin faults
   /\ Cardinality(ExistingSuffixes(base)) >= 2)
  => RaceResult(race) = base \o Extensions[EarliestSuffix(base)]

C4_NeverRejects ==
  \A k \in 1..Len(outcomes) :
    /\ ~outcomes[k].rejected
    /\ (outcomes[k].value = undefined \/ pathIsAbsolute(outcomes[k].value))

\* A call whose alias matcher raised has finished, and one whose workspace
\* search raised has finished.
C4_Witness ==
  /\ faults = Faults
  /\ Len(outcomes) >= 1
  /\ outcomes[1].aliasCalled
  /\ ~outcomes[1].rejected

\* C5: two calls with the same specifier and requesting file, an unchanged
\* filesystem and an unchanged snapshot return identical results, whatever
\* the completion order of the existence checks (stated for the calls the
\* workspace search, whose listing order is not the engine's, did not decide).
C5_Idempotent ==
  (/\ Len(outcomes) >= 2
   /\ ~outcomes[1].wsCalled
   /\ ~outcomes[2].wsCalled)
  => outcomes[1].value = outcomes[2].value

\* The alias candidates of a finished call, and the first of them at which
\* a file exists under a probed suffix (0 when there is none).
AliasCandidatesOf(k) ==
  LET r == resolveAliasToFiles(outcomes[k].spec, loaded, WorkspaceRoot)
  IN IF r.threw THEN << >> ELSE r.value

FirstExistingCandidate(cands) ==
  IF \E i \in 1..Len(cands) : ExistingSuffixes(cands[i]) # {}
    THEN CHOOSE i \in 1..Len(cands) :
           /\ ExistingSuffixes(cands[i]) # {}
           /\ \A j \in 1..(i - 1) : ExistingSuffixes(cands[j]) = {}
    ELSE 0

\* C11: for a non-relative specifier findFileForImport returns a file found
\* at the first alias candidate, in the matcher's order, at which a file
\* exists, and the workspace search is not consulted (stated for candidates
\* none of which names a directory).
C11_FirstExistingCandidateWins ==
  \A k \in 1..Len(outcomes) :
    LET cands == AliasCandidatesOf(k)
        i == FirstExistingCandidate(cands)
    IN (/\ faults = {}
        /\ outcomes[k].aliasCalled
        /\ i # 0
        /\ \A n \in 1..Len(cands) : StatSucceeds(files, cands[n]) => cands[n] \in files)
       => /\ ~outcomes[k].wsCalled
          /\ outcomes[k].value \in
               {cands[i] \o Extensions[j] : j \in ExistingSuffixes(cands[i])}

\* C13: a bare specifier that no alias or path-mapping key matches and for
\* which the workspace search finds no file resolves to none, and the
\* promise is not rejected.
C13_UnmatchedBareSpecifierIsNone ==
  \A k \in 1..Len(outcomes) :
    \/ ~outcomes[k].rejected /\ outcomes[k].value = undefined
    \/ ~outcomes[k].aliasCalled
    \/ \E f \in files :
         StartsWith(Split(f)[Len(Split(f))],
                    Split(outcomes[k].spec)[Len(Split(outcomes[k].spec))])
    \/ AliasCandidatesOf(k) # << >>

\* The call for 'lib' has consulted the workspace search, in a workspace
\* that holds files, and returned none.
C13_Witness ==
  /\ Len(outcomes) >= 1
  /\ outcomes[1].spec = "lib"
  /\ faults = {}
  /\ files # {}
  /\ outcomes[1].wsCalled
  /\ outcomes[1].value = undefined

\* C26: a relative specifier resolved without a requesting file yields
\* none at once: no existence check is issued, and neither the alias
\* matcher (which loads the configs) nor the workspace search is called.
C26_Step ==
  (IsRelative /\ documentUri = undefined) =>
    /\ pc \in {"idle", "done"}
    /\ pending = {} /\ pending' = {}
    /\ ~aliasCalled' /\ ~wsCalled'
    /\ pc = "idle" =>
         /\ pc' = "done"
         /\ outcomes' = Append(outcomes,
                                [rejected |-> FALSE, value |-> undefined,
                                 spec |-> normalizeImportSpec(rawSpec),
                                 aliasCalled |-> FALSE, wsCalled |-> FALSE])

C26_RelativeWithoutDocumentIsNone == [][C26_Step]_vars

\* ./u was resolved without a requesting file and gave none, although
\* /p/s/u.ts exists.
C26_Witness ==
  /\ rawSpec = "./u"
  /\ documentUri = undefined
  /\ "/p/s/u.ts" \in files
  /\ faults = {}
  /\ Len(outcomes) = MaxCalls
  /\ \A k \in 1..Len(outcomes) : outcomes[k].value = undefined

\* C29: the prober never returns a directory: every location it returns
\* names a regular file, also when the base path itself is an existing
\* directory.
C29_ProbeReturnsRegularFile ==
  (pc \in {"probeRelative", "probeAlias"} /\ race.state = "fulfilled")
    => RaceResult(race) \in files

(***************************************************************************)
(* The workspace specification: the orchestrator over a workspace that     *)
(* holds a media file, a file inside a node_modules tree and files whose   *)
(* names begin with the final segment of the specifiers, and over          *)
(* specifiers that are nothing but a pair of quotes.                       *)
(***************************************************************************)
WorkspaceFiles ==
  {"/p/s/u.mp3", "/p/s/lib.ts", "/p/node_modules/lib/lib.js", "/p/t/u.ts"}

WorkspaceSpecs == {"./u", "lib", "@/u", "''", "\"\""}

WorkspaceFaultSets == {{}, {"findFiles"}}

InitWorkspace ==
  /\ files \in SUBSET WorkspaceFiles
  /\ loaded \in {NoSnapshot, MappedSnapshot}
  /\ faults \in WorkspaceFaultSets
  /\ rawSpec \in WorkspaceSpecs
  /\ documentUri \in DocumentUris
  /\ callNo = 1
  /\ pc = "idle"
  /\ spec = ""
  /\ base = ""
  /\ pending = {}
  /\ race = RacePending
  /\ remaining = << >>
  /\ aliasCalled = FALSE
  /\ wsCalled = FALSE
  /\ outcomes = << >>
  /\ IdleCache
  /\ IdleAlias
  /\ IdleDebug
  /\ IdleWalk
  /\ IdleOpen

SpecWorkspace == InitWorkspace /\ [][Next]_vars

\* The last segment of a path.
LastSegment(p) == Split(p)[Len(Split(p))]

\* The regular files of the directory holding b whose names begin with the
\* final segment of b.
ScanMatches(b) ==
  { f \in files : /\ pathDirname(f) = pathDirname(b)
                  /\ StartsWith(LastSegment(f), LastSegment(b)) }

\* C23: when no probed suffix exists at the base path, the prober lists the
\* directory holding the base path and returns a listed entry that is not a
\* directory and whose name begins with the base path's final segment, or
\* none when there is no such entry; a file with an extension that is not
\* enumerated (u.mp3 for ./u) is thereby resolved.
C23_DirectoryScanFallback ==
  \A k \in 1..Len(outcomes) :
    (/\ IsRelative
     /\ documentUri # undefined
     /\ "stat" \notin faults
     /\ \A i \in 1..Len(Extensions) : ~StatSucceeds(files, RelativeBase \o Extensions[i]))
    => IF ScanMatches(RelativeBase) = {}
         THEN outcomes[k].value = undefined
         ELSE outcomes[k].value \in ScanMatches(RelativeBase)

\* The step issues the workspace search.
IssuesSearch == ~wsCalled /\ wsCalled'

\* C24: the workspace search is issued only for a specifier that is not
\* relative and only once every alias candidate has been probed, in order,
\* and none was found; it looks for names beginning with the specifier's
\* final segment outside node_modules trees, and the call returns the first
\* result when there is one.
C24_Step ==
  /\ pc = "probeAlias" =>
       \E n \in 1..Len(resolveAliasToFiles(spec, loaded, WorkspaceRoot).value) :
         LET cands == resolveAliasToFiles(spec, loaded, WorkspaceRoot).value
         IN base = cands[n] /\ remaining = SubSeq(cands, n + 1, Len(cands))
  /\ IssuesSearch =>
       /\ ~StartsWith(spec, ".")
       /\ \/ pc = "alias" /\ resolveAliasToFiles(spec, loaded, WorkspaceRoot).value = << >>
          \/ /\ pc = "probeAlias"
             /\ remaining = << >>
             /\ race.state # "pending"
             /\ RaceResult(race) = undefined
  /\ (pc = "findFiles" /\ pc' = "done") =>
       LET names == { f \in files : /\ StartsWith(f, WorkspaceRoot \o "/")
                                    /\ StartsWith(LastSegment(f), LastSegment(spec))
                                    /\ "node_modules" \notin
                                         {Split(f)[n] : n \in 1..Len(Split(f))} }
           o == outcomes'[Len(outcomes')]
       IN /\ o.wsCalled
          /\ ~o.rejected
          /\ IF names = {} \/ "findFiles" \in faults
               THEN o.value = undefined
               ELSE o.value \in names

C24_WorkspaceFallback == [][C24_Step]_vars

\* Both candidates of "@/u" were probed and not found, and the search has
\* returned the media file whose name begins with "u", in a workspace that
\* also holds a file beneath node_modules.
C24_Witness ==
  /\ Len(outcomes) >= 1
  /\ rawSpec = "@/u"
  /\ loaded = MappedSnapshot
  /\ files = {"/p/s/u.mp3", "/p/node_modules/lib/lib.js"}
  /\ outcomes[1].wsCalled
  /\ outcomes[1].value = "/p/s/u.mp3"

\* C30: a specifier that is empty, or that is empty once its quotes are
\* stripped (two quote characters), resolves to none: no workspace file
\* is returned for it and no workspace search with an empty base name is
\* issued.
C30_EmptySpecifierIsNone ==
  normalizeImportSpec(rawSpec) = "" =>
    /\ ~wsCalled
    /\ \A k \in 1..Len(outcomes) :
         /\ outcomes[k].value = undefined
         /\ ~outcomes[k].wsCalled

(***************************************************************************)
(* findFileForImport as a function of its inputs and of the completion     *)
(* order, run once with DEBUG unset and once with DEBUG set.               *)
(***************************************************************************)
\* Variant: the logging statement is not wrapped in try/catch.
DebugLogUnguarded(dbg, raises) == dbg /\ raises

\* try { if (DEBUG) console.debug(...) } catch {} (findFile.ts 58, 72, 78,
\* 83, 92, 97): whether an exception leaves the statement.
DebugLog(dbg, raises) == FALSE

\* findFileWithExtensions(b, exts) when the check of suffix number first is
\* the first to complete.
ProbeWithFirst(fs, flt, b, first) ==
  RaceResult(RaceSettle(RacePending, CandidatePromise(fs, flt, b, first)))

\* The loop over the alias candidates (findFile.ts 80-87); undefined when
\* no candidate probes.
RECURSIVE AliasLoopRun(_, _, _, _, _, _)
AliasLoopRun(cands, fs, flt, firsts, dbg, raises) ==
  IF cands = << >> THEN Returned(undefined)
  ELSE LET found == ProbeWithFirst(fs, flt, Head(cands), Head(firsts))
       IN IF found # undefined
            THEN IF DebugLog(dbg, raises) THEN Thrown ELSE Returned(found)
            ELSE AliasLoopRun(Tail(cands), fs, flt, Tail(firsts), dbg, raises)

\* Lines 89-101: the workspace search and the final return.
WorkspaceSearchRun(s, fs, flt, ws, dbg, raises) ==
  IF "findFiles" \in flt THEN Thrown
  ELSE LET m == FindFilesMatches(fs, getBaseNameFromSpec(s))
           first == IF m = {} THEN undefined
                    ELSE IF ws \in m THEN ws
                    ELSE CHOOSE f \in m : TRUE
       IN IF DebugLog(dbg, raises) THEN Thrown
          ELSE IF first # undefined THEN Returned(first)
          ELSE IF ~StartsWith(s, ".") /\ DebugLog(dbg, raises) THEN Thrown
          ELSE Returned(undefined)

\* The body of the outer try (findFile.ts 57-101).
findFileForImportBody(raw, doc, fs, c, flt, sch, dbg, raises) ==
  IF raw = "" THEN Returned(undefined)
  ELSE IF DebugLog(dbg, raises) THEN Thrown
  ELSE LET s == normalizeImportSpec(raw)
       IN IF StartsWith(s, ".")
            THEN IF doc = undefined THEN Returned(undefined)
                 ELSE LET found == ProbeWithFirst(fs, flt, pathJoin(pathDirname(doc), s),
                                                  Head(sch.first))
                      IN IF found # undefined /\ DebugLog(dbg, raises) THEN Thrown
                         ELSE Returned(found)
            ELSE LET r == IF "alias" \in flt THEN Thrown
                          ELSE resolveAliasToFiles(s, c, WorkspaceRoot)
                 IN IF r.threw THEN Thrown
                    ELSE IF DebugLog(dbg, raises) THEN Thrown
                    ELSE LET l == AliasLoopRun(r.value, fs, flt, sch.first, dbg, raises)
                         IN IF l.threw \/ l.value # undefined THEN l
                            ELSE WorkspaceSearchRun(s, fs, flt, sch.ws, dbg, raises)

findFileForImportRun(raw, doc, fs, c, flt, sch, dbg, raises) ==
  findFileForImportCatch(findFileForImportBody(raw, doc, fs, c, flt, sch, dbg, raises))

DebugFiles == {"/p/s/u", "/p/s/u.ts", "/p/t/u.ts"}

DebugFaultSets == {{}, {"findFiles"}}

\* The file workspace.findFiles lists first when it matches.
WsPicks == {"/p/s/u", "/p/t/u.ts"}

\* The call is made with DEBUG = dbg.
DebugRun(dbg) ==
  /\ Len(debugRuns) = (IF dbg THEN 1 ELSE 0)
  /\ LET o == findFileForImportRun(rawSpec, documentUri, files, loaded, faults,
                                   schedule, dbg, logRaises)
     IN debugRuns' = Append(debugRuns, [DEBUG |-> dbg, rejected |-> o.threw,
                                        value |-> o.value])
  /\ UNCHANGED << logRaises, schedule >>
  /\ UNCHANGED << orchVars, cacheVars, aliasVars, walkVars, openVars >>

InitDebug ==
  /\ files \in SUBSET DebugFiles
  /\ loaded \in {NoSnapshot, MappedSnapshot}
  /\ faults \in DebugFaultSets
  /\ rawSpec \in RawSpecs
  /\ documentUri \in DocumentUris
  /\ callNo = 1
  /\ pc = "idle"
  /\ spec = ""
  /\ base = ""
  /\ pending = {}
  /\ race = RacePending
  /\ remaining = << >>
  /\ aliasCalled = FALSE
  /\ wsCalled = FALSE
  /\ outcomes = << >>
  /\ logRaises \in BOOLEAN
  /\ schedule \in [first : [1..2 -> 1..Len(Extensions)], ws : WsPicks]
  /\ debugRuns = << >>
  /\ IdleCache
  /\ IdleAlias
  /\ IdleWalk
  /\ IdleOpen

NextDebug ==
  \/ DebugRun(FALSE)
  \/ DebugRun(TRUE)

SpecDebug == InitDebug /\ [][NextDebug]_vars

\* C18: for the same specifier, requesting file, filesystem, snapshot and
\* completion order, findFileForImport settles the same way with DEBUG set
\* as with DEBUG unset, also when console.debug raises.
C18_DebugFlagHasNoEffect ==
  Len(debugRuns) = 2 =>
    /\ debugRuns[1].DEBUG # debugRuns[2].DEBUG
    /\ debugRuns[1].rejected = debugRuns[2].rejected
    /\ debugRuns[1].value = debugRuns[2].value

\* With console.debug raising, the call with DEBUG set has returned a file.
C18_Witness ==
  /\ Len(debugRuns) = 2
  /\ logRaises
  /\ debugRuns[2].DEBUG
  /\ debugRuns[2].value \in files

(***************************************************************************)
(* The quote stripping on its own (findFile.ts 60-64, the code of          *)
(* normalizeImportSpec): a specifier is drawn and normalized.              *)
(***************************************************************************)
\* Bound: the length of the specifiers drawn.
MaxSpecLen == 4

QuoteAlphabet == {"'", "\"", "a"}

RECURSIVE StringsOfLength(_)
StringsOfLength(n) ==
  IF n = 0 THEN {""}
  ELSE {s \o c : s \in StringsOfLength(n - 1), c \in QuoteAlphabet}

QuotedSpecs == UNION {StringsOfLength(n) : n \in 0..MaxSpecLen}

\* Lines 60-64 of findFileForImport.
NormalizeCall ==
  /\ pc = "idle"
  /\ spec' = normalizeImportSpec(rawSpec)
  /\ pc' = "normalized"
  /\ UNCHANGED << files, loaded, faults, rawSpec, documentUri, callNo, base, pending,
                  race, remaining, aliasCalled, wsCalled, outcomes >>
  /\ UNCHANGED << cacheVars, aliasVars, debugVars, walkVars, openVars >>

InitNormalize ==
  /\ rawSpec \in QuotedSpecs
  /\ files = {}
  /\ loaded = NoSnapshot
  /\ faults = {}
  /\ documentUri = undefined
  /\ callNo = 1
  /\ pc = "idle"
  /\ spec = ""
  /\ base = ""
  /\ pending = {}
  /\ race = RacePending
  /\ remaining = << >>
  /\ aliasCalled = FALSE
  /\ wsCalled = FALSE
  /\ outcomes = << >>
  /\ IdleCache
  /\ IdleAlias
  /\ IdleDebug
  /\ IdleWalk
  /\ IdleOpen

NextNormalize == NormalizeCall

SpecNormalize == InitNormalize /\ [][NextNormalize]_vars

\* The input is wrapped in a matching pair of quotes: two characters at
\* least, the first and the last the same quote.
WrappedInQuotes(s) ==
  /\ Len(s) >= 2
  /\ CharAt(s, 1) \in {"'", "\""}
  /\ CharAt(s, Len(s)) = CharAt(s, 1)

\* C17: normalizeImportSpec strips exactly one layer of quotes from an input
\* wrapped in a matching pair of single or double quotes and returns every
\* other input unchanged, mismatched quotes and a lone quote included.
C17_OneLayerOfMatchingQuotes ==
  pc = "normalized" =>
    spec = (IF WrappedInQuotes(rawSpec) THEN Slice(rawSpec, 2, Len(rawSpec) - 1)
            ELSE rawSpec)

(***************************************************************************)
(* alias.ts: the config loader and its cache.                              *)
(*                                                                         *)
(* The decoded contents of a tsconfig.json are [ok, baseUrl, paths]: ok    *)
(* says whether the text decodes as JSON, baseUrl is compilerOptions'      *)
(* baseUrl ("" when not declared) and paths the entries of its paths.      *)
(* The webpack.config.js is [kind, aliases]: kind is "missing", "noAlias"  *)
(* (no alias block), "unparseable" or "ok", aliases the entries of the     *)
(* alias literal.                                                          *)
(***************************************************************************)
\* 5 minutes, in milliseconds (alias.ts 15).
CACHE_TTL == 300000

\* alias.ts 26-41: the walk up from currentDir, then the fallback to the
\* root's config (alias.ts 44-51).  exists is the set of paths stat finds.
RECURSIVE NearestWalk(_, _, _)
NearestWalk(currentDir, workspaceRootPath, exists) ==
  LET rootTsconfigPath == pathJoin(workspaceRootPath, "tsconfig.json")
      fallback == IF rootTsconfigPath \in exists THEN rootTsconfigPath ELSE undefined
  IN IF Len(currentDir) > 1 /\ StartsWith(currentDir, workspaceRootPath)
       THEN LET tsconfigPath == pathJoin(currentDir, "tsconfig.json")
                parentDir == pathDirname(currentDir)
            IN IF tsconfigPath \in exists THEN tsconfigPath
               ELSE IF parentDir = currentDir THEN fallback
               ELSE NearestWalk(parentDir, workspaceRootPath, exists)
       ELSE fallback

\* Variant: only the config directly under the project root is looked at.
RootTsconfigOnly(resourcePath, workspaceRootPath, exists) ==
  IF pathJoin(workspaceRootPath, "tsconfig.json") \in exists
    THEN pathJoin(workspaceRootPath, "tsconfig.json")
    ELSE undefined

\* findNearestTsconfig (alias.ts 22-52).
findNearestTsconfig(resourcePath, workspaceRootPath, exists) ==
  NearestWalk(pathDirname(resourcePath), workspaceRootPath, exists)

\* loadTsconfig (alias.ts 59-83): a missing, unreadable or undecodable file
\* gives {} (no baseUrl, no paths).
loadTsconfig(tsconfigPath, fs) ==
  IF tsconfigPath \notin DOMAIN fs \/ ~fs[tsconfigPath].ok
    THEN [baseUrl |-> undefined, paths |-> << >>]
    ELSE [baseUrl |-> IF fs[tsconfigPath].baseUrl # ""
                        THEN pathResolve(pathDirname(tsconfigPath), fs[tsconfigPath].baseUrl)
                        ELSE undefined,
          paths |-> fs[tsconfigPath].paths]

RECURSIVE NormalizeAliases(_, _)
NormalizeAliases(entries, workspaceRoot) ==
  IF entries = << >> THEN << >>
  ELSE << [key |-> Head(entries).key,
           target |-> IF pathIsAbsolute(Head(entries).target)
                        THEN Head(entries).target
                        ELSE pathResolve(workspaceRoot, Head(entries).target)] >>
         \o NormalizeAliases(Tail(entries), workspaceRoot)

\* Variant: the entries read from the file are returned although the alias
\* literal did not parse.
loadWebpackAliasesUnchecked(workspaceRoot, wp) ==
  NormalizeAliases(wp.aliases, workspaceRoot)

\* loadWebpackAliases (alias.ts 89-126): anything but a parsed alias literal
\* gives undefined (an absent table).
loadWebpackAliases(workspaceRoot, wp) ==
  IF wp.kind = "ok" THEN NormalizeAliases(wp.aliases, workspaceRoot) ELSE << >>

\* Variant: an entry under the key is returned whatever its age.
CacheHitIgnoringAge(c, cacheKey, t) == cacheKey \in DOMAIN c

\* Variant: an entry of age exactly CACHE_TTL is still returned.
CacheHitAtTtl(c, cacheKey, t) ==
  cacheKey \in DOMAIN c /\ (t - c[cacheKey].timestamp) <= CACHE_TTL

\* The validity check (alias.ts 150).
CacheHit(c, cacheKey, t) ==
  cacheKey \in DOMAIN c /\ (t - c[cacheKey].timestamp) < CACHE_TTL

\* Variant: storing an entry drops the entries of the other keys.
CachePutAlone(c, cacheKey, entry) == [k \in {cacheKey} |-> entry]

\* cache[cacheKey] = entry (alias.ts 163).
CachePut(c, cacheKey, entry) ==
  [k \in DOMAIN c \cup {cacheKey} |-> IF k = cacheKey THEN entry ELSE c[k]]

\* alias.ts 135-146: the config in use and the cache key.
TsconfigPathFor(workspaceRoot, resourcePath, exists) ==
  IF resourcePath # undefined
    THEN findNearestTsconfig(resourcePath, workspaceRoot, exists)
    ELSE pathJoin(workspaceRoot, "tsconfig.json")

CacheKeyFor(tsconfigPath, workspaceRoot) ==
  IF tsconfigPath # undefined THEN tsconfigPath ELSE workspaceRoot

(***************************************************************************)
(* loadAliasesForRoot (alias.ts 133-165), one action per stretch of code   *)
(* between two awaits, for callers whose calls interleave.                 *)
(***************************************************************************)
\* Bound: how many times the clock advances.
MaxTicks == 2

\* Bound: how many times a tsconfig.json is edited.
MaxEdits == 1

\* Bound: how many loadAliasesForRoot calls are started.
MaxLoads == 3

Callers == {"a"}

\* The clock advances by a millisecond or by a millisecond less than the TTL.
TickSteps == {1, CACHE_TTL - 1}

\* The cache specification: one place a tsconfig.json may be at, and the
\* two shapes of a call (without and with a requesting file).
CacheTsPaths == {"/p/tsconfig.json"}

CacheResources == {undefined, "/p/a.ts"}

\* The nearest-config specification: the places a tsconfig.json may be at
\* (one of them above the project root), and the requesting files.
TsPaths ==
  {"/tsconfig.json", "/p/tsconfig.json", "/p/k/tsconfig.json", "/p/k/m/tsconfig.json"}

ResourcePaths == {undefined, "/p/a.ts", "/p/k/a.ts", "/p/k/m/a.ts"}

TsV1 ==
  [ok |-> TRUE, baseUrl |-> ".",
   paths |-> << [key |-> "@/*", vals |-> JsonList(<<"s/*">>)] >>]

TsV2 ==
  [ok |-> TRUE, baseUrl |-> "",
   paths |-> << [key |-> "@/*", vals |-> JsonList(<<"t/*">>)] >>]

TsMalformed == [ok |-> FALSE, baseUrl |-> "", paths |-> << >>]

TsContents == {TsV1, TsV2, TsMalformed}

EmptyTs == [baseUrl |-> undefined, paths |-> << >>]

IdleFrame ==
  [pc |-> "idle", resourcePath |-> undefined, tsconfigPath |-> undefined,
   cacheKey |-> "", now |-> 0, prior |-> -1, ts |-> EmptyTs, hit |-> FALSE,
   entry |-> NoSnapshot]

\* alias.ts 135-154: the config in use is found, the time is read and the
\* cache is looked up; a valid entry is returned, otherwise the reads start.
\* (The stats of the walk see one state of the filesystem.)
LoadStart(c, r) ==
  /\ loads[c].pc \in {"idle", "done"}
  /\ started < MaxLoads
  /\ started' = started + 1
  /\ LET tsconfigPath == TsconfigPathFor(WorkspaceRoot, r, DOMAIN tsFiles)
         cacheKey == CacheKeyFor(tsconfigPath, WorkspaceRoot)
         frame == [pc |-> "readTsconfig", resourcePath |-> r,
                   tsconfigPath |-> tsconfigPath, cacheKey |-> cacheKey, now |-> now,
                   prior |-> IF cacheKey \in DOMAIN cache
                               THEN cache[cacheKey].timestamp ELSE -1,
                   ts |-> EmptyTs, hit |-> FALSE, entry |-> NoSnapshot]
     IN IF CacheHit(cache, cacheKey, now)
          THEN loads' = [loads EXCEPT ![c] =
                           [frame EXCEPT !.pc = "done", !.hit = TRUE,
                                         !.entry = cache[cacheKey]]]
          ELSE loads' = [loads EXCEPT ![c] = frame]
  /\ UNCHANGED << now, ticks, edits, tsFiles, wpFile, lastEdit, cache >>
  /\ UNCHANGED << orchVars, aliasVars, debugVars, walkVars, openVars >>

\* alias.ts 154: loadTsconfig returns what the file holds now.
LoadTsconfigReturns(c) ==
  /\ loads[c].pc = "readTsconfig"
  /\ loads' = [loads EXCEPT ![c].pc = "readWebpack",
                            ![c].ts = IF loads[c].tsconfigPath # undefined
                                        THEN loadTsconfig(loads[c].tsconfigPath, tsFiles)
                                        ELSE EmptyTs]
  /\ UNCHANGED << now, ticks, edits, started, tsFiles, wpFile, lastEdit, cache >>
  /\ UNCHANGED << orchVars, aliasVars, debugVars, walkVars, openVars >>

\* alias.ts 155-164: loadWebpackAliases returns, the entry is built with
\* the time read at line 147, stored under the key and returned.
LoadWebpackReturns(c) ==
  /\ loads[c].pc = "readWebpack"
  /\ LET entry == [workspaceRoot |-> WorkspaceRoot,
                   tsconfigPaths |-> loads[c].ts.paths,
                   baseUrl |-> loads[c].ts.baseUrl,
                   webpackAliases |-> loadWebpackAliases(WorkspaceRoot, wpFile),
                   timestamp |-> loads[c].now]
     IN /\ cache' = CachePut(cache, loads[c].cacheKey, entry)
        /\ loads' = [loads EXCEPT ![c].pc = "done", ![c].entry = entry]
  /\ UNCHANGED << now, ticks, edits, started, tsFiles, wpFile, lastEdit >>
  /\ UNCHANGED << orchVars, aliasVars, debugVars, walkVars, openVars >>

\* Time passes.
Tick(d) ==
  /\ ticks < MaxTicks
  /\ ticks' = ticks + 1
  /\ now' = now + d
  /\ UNCHANGED << edits, started, tsFiles, wpFile, lastEdit, cache, loads >>
  /\ UNCHANGED << orchVars, aliasVars, debugVars, walkVars, openVars >>

\* The user edits a path-mapping config.
EditTsconfig(path, contents) ==
  /\ edits < MaxEdits
  /\ path \in DOMAIN tsFiles
  /\ contents # tsFiles[path]
  /\ edits' = edits + 1
  /\ tsFiles' = [tsFiles EXCEPT ![path] = contents]
  /\ lastEdit' = [lastEdit EXCEPT ![path] = now]
  /\ UNCHANGED << now, ticks, started, wpFile, cache, loads >>
  /\ UNCHANGED << orchVars, aliasVars, debugVars, walkVars, openVars >>

InitCache ==
  /\ now = 0
  /\ ticks = 0
  /\ edits = 0
  /\ started = 0
  /\ \E S \in SUBSET CacheTsPaths :
       /\ tsFiles = [q \in S |-> TsV1]
       /\ lastEdit = [q \in S |-> -1]
  /\ wpFile = [kind |-> "missing", aliases |-> << >>]
  /\ cache = << >>
  /\ loads = [c \in Callers |-> IdleFrame]
  /\ IdleOrch
  /\ IdleAlias
  /\ IdleDebug
  /\ IdleWalk
  /\ IdleOpen

NextCache ==
  \/ \E c \in Callers, r \in CacheResources : LoadStart(c, r)
  \/ \E c \in Callers : LoadTsconfigReturns(c)
  \/ \E c \in Callers : LoadWebpackReturns(c)
  \/ \E d \in TickSteps : Tick(d)
  \/ \E q \in CacheTsPaths, contents \in TsContents : EditTsconfig(q, contents)

SpecCache == InitCache /\ [][NextCache]_vars

\* The nearest-config specification: calls over every layout of configs,
\* with the clock and the files left alone.
InitNearest ==
  /\ now = 0
  /\ ticks = 0
  /\ edits = 0
  /\ started = 0
  /\ \E S \in SUBSET TsPaths :
       /\ tsFiles = [q \in S |-> IF q = "/p/tsconfig.json" THEN TsV2 ELSE TsV1]
       /\ lastEdit = [q \in S |-> -1]
  /\ wpFile = [kind |-> "missing", aliases |-> << >>]
  /\ cache = << >>
  /\ loads = [c \in Callers |-> IdleFrame]
  /\ IdleOrch
  /\ IdleAlias
  /\ IdleDebug
  /\ IdleWalk
  /\ IdleOpen

NextNearest ==
  \/ \E c \in Callers, r \in ResourcePaths : LoadStart(c, r)
  \/ \E c \in Callers : LoadTsconfigReturns(c)
  \/ \E c \in Callers : LoadWebpackReturns(c)

SpecNearest == InitNearest /\ [][NextNearest]_vars

(***************************************************************************)
(* Properties of the config loader.                                        *)
(***************************************************************************)
\* C6: loadAliasesForRoot never returns a cached entry whose age is 5
\* minutes or more; for such an entry both config sources are re-read and a
\* fresh entry (stamped with the time of the call) is returned.
C6_ExpiredEntryIsNeverReturned ==
  \A c \in Callers :
    LET f == loads[c]
    IN /\ (f.pc = "done" /\ f.hit) => f.now - f.entry.timestamp < CACHE_TTL
       /\ (f.pc # "idle" /\ f.prior >= 0 /\ f.now - f.prior >= CACHE_TTL) =>
            /\ ~f.hit
            /\ f.pc = "done" =>
                 /\ f.entry.timestamp = f.now
                 /\ f.entry.tsconfigPaths = f.ts.paths
                 /\ f.entry.baseUrl = f.ts.baseUrl

\* A call found an entry of age exactly the TTL under its key and has
\* returned a recomputed one.
C6_Witness ==
  \E c \in Callers :
    /\ loads[c].pc = "done"
    /\ loads[c].prior >= 0
    /\ loads[c].now - loads[c].prior = CACHE_TTL
    /\ ~loads[c].hit
    /\ loads[c].entry.timestamp = loads[c].now

\* C7: once a path-mapping config was edited and more than the TTL has
\* passed, every call for that config returns the edited contents.
C7_EditIsSeenAfterTtl ==
  \A c \in Callers :
    LET f == loads[c]
    IN (/\ f.pc = "done"
        /\ f.tsconfigPath \in DOMAIN tsFiles
        /\ lastEdit[f.tsconfigPath] >= 0
        /\ f.now - lastEdit[f.tsconfigPath] > CACHE_TTL)
       => /\ f.entry.tsconfigPaths = loadTsconfig(f.tsconfigPath, tsFiles).paths
          /\ f.entry.baseUrl = loadTsconfig(f.tsconfigPath, tsFiles).baseUrl

\* A call made more than the TTL after an edit, with the contents of before
\* the edit in the cache, has returned the edited contents.
C7_Witness ==
  \E c \in Callers :
    /\ loads[c].pc = "done"
    /\ loads[c].tsconfigPath \in DOMAIN tsFiles
    /\ lastEdit[loads[c].tsconfigPath] >= 0
    /\ loads[c].prior >= 0
    /\ loads[c].prior <= lastEdit[loads[c].tsconfigPath]
    /\ loads[c].now - lastEdit[loads[c].tsconfigPath] > CACHE_TTL
    /\ tsFiles[loads[c].tsconfigPath] = TsV2
    /\ loads[c].entry.tsconfigPaths = TsV2.paths

\* The directories from d up to the filesystem root.
RECURSIVE DirChain(_)
DirChain(d) ==
  IF pathDirname(d) = d THEN {d} ELSE {d} \cup DirChain(pathDirname(d))

\* The directories on the chain from the file's directory up to the project
\* root (inclusive) that hold a tsconfig.json.
ConfigDirs(r) ==
  {d \in DirChain(pathDirname(r)) :
     /\ d = WorkspaceRoot \/ StartsWith(d, WorkspaceRoot \o "/")
     /\ pathJoin(d, "tsconfig.json") \in DOMAIN tsFiles}

DeepestConfig(r) ==
  IF ConfigDirs(r) = {} THEN undefined
  ELSE pathJoin(CHOOSE d \in ConfigDirs(r) : \A e \in ConfigDirs(r) : Len(e) <= Len(d),
                "tsconfig.json")

\* One step of the loader, as C16 wants it.
C16_Step ==
  /\ \A c \in Callers :
       /\ (loads'[c] # loads[c] /\ loads'[c].hit) =>
            /\ cache' = cache
            /\ loads[c].pc \in {"idle", "done"}
            /\ loads'[c].pc = "done"
            /\ loads'[c].ts = EmptyTs
            /\ loads'[c].entry = cache[loads'[c].cacheKey]
            /\ loads'[c].now - loads'[c].entry.timestamp < CACHE_TTL
       /\ (loads[c].pc = "readWebpack" /\ loads'[c].pc = "done") =>
            /\ DOMAIN cache' = DOMAIN cache \cup {loads[c].cacheKey}
            /\ cache'[loads[c].cacheKey] = loads'[c].entry
            /\ \A k \in DOMAIN cache \ {loads[c].cacheKey} : cache'[k] = cache[k]
  /\ cache' # cache =>
       \E c \in Callers : loads[c].pc = "readWebpack" /\ loads'[c].pc = "done"

\* C16: a call that finds an entry younger than the TTL under its key
\* returns that entry, leaves the cache as it is and reads no config file;
\* a miss or an expired entry replaces the entry of that key only.
C16_HitChangesNothing == [][C16_Step]_vars

\* A call has returned the stored entry of its key while the cache holds
\* the entry of another key too.
C16_Witness ==
  \E c \in Callers :
    /\ loads[c].pc = "done"
    /\ loads[c].hit
    /\ Cardinality(DOMAIN cache) = 2
    /\ loads[c].entry = cache[loads[c].cacheKey]

\* C15: the cache key of a call is the path of a tsconfig.json found to
\* exist, and the project root when none was found, with and without a
\* requesting file.
C15_CacheKeyIsAnExistingConfig ==
  \A c \in Callers :
    loads[c].pc # "idle" =>
      \/ loads[c].cacheKey \in DOMAIN tsFiles
      \/ /\ loads[c].cacheKey = WorkspaceRoot
         /\ (IF loads[c].resourcePath = undefined
               THEN pathJoin(WorkspaceRoot, "tsconfig.json") \notin DOMAIN tsFiles
               ELSE ConfigDirs(loads[c].resourcePath) = {})

\* C8: with a requesting file inside the project root, the config used is
\* the tsconfig.json of the deepest directory on the chain from the file's
\* directory up to the root that holds one, and with none on the chain the
\* path-mapping portion of the snapshot is empty.
C8_NearestConfigIsUsed ==
  \A c \in Callers :
    LET f == loads[c]
    IN (f.pc # "idle" /\ f.resourcePath # undefined) =>
         /\ f.tsconfigPath = DeepestConfig(f.resourcePath)
         /\ (f.pc = "done" /\ f.tsconfigPath # undefined) =>
              f.entry.tsconfigPaths = tsFiles[f.tsconfigPath].paths
         /\ (f.pc = "done" /\ f.tsconfigPath = undefined) =>
              /\ f.entry.tsconfigPaths = << >>
              /\ f.entry.baseUrl = undefined

\* A call for a file two levels below a nested config has returned the
\* nested config's mappings although the root holds a config too.
C8_Witness ==
  \E c \in Callers :
    /\ loads[c].pc = "done"
    /\ loads[c].resourcePath = "/p/k/m/a.ts"
    /\ "/p/tsconfig.json" \in DOMAIN tsFiles
    /\ "/p/k/m/tsconfig.json" \notin DOMAIN tsFiles
    /\ loads[c].tsconfigPath = "/p/k/tsconfig.json"
    /\ loads[c].entry.tsconfigPaths = TsV1.paths

(***************************************************************************)
(* The alias matcher on its own: a specifier and a snapshot are drawn, and *)
(* resolveAliasToFiles is applied to them.  aliasOut holds what the calls  *)
(* made so far produced.                                                   *)
(***************************************************************************)
AliasSpecs == {"@/ui/button", "@/ui", "@/a", "@/a$$b", "@/a$&b", "@", "lib"}

WebpackTables ==
  { << >>,
    << [key |-> "@", target |-> "/p/A"], [key |-> "@/ui", target |-> "/p/B"] >>,
    << [key |-> "@/ui", target |-> "/p/B"], [key |-> "@", target |-> "/p/A"] >>,
    << [key |-> "@", target |-> "/p/src"], [key |-> "@/ui", target |-> "/p/src/ui"] >> }

TsconfigTables ==
  { << >>,
    << [key |-> "@/*", vals |-> JsonList(<<"src/*">>)] >>,
    << [key |-> "@/*", vals |-> JsonList(<<"src/*", "gen/*">>)],
       [key |-> "@/ui/*", vals |-> JsonList(<<"ui/*">>)] >>,
    << [key |-> "@/ui/*", vals |-> JsonList(<<"ui/*">>)],
       [key |-> "@/*", vals |-> JsonList(<<"src/*">>)] >>,
    << [key |-> "lib", vals |-> JsonList(<<"vendor/lib">>)] >> }

BaseUrls == {undefined, "/p/b"}

AliasSnapshots ==
  { [workspaceRoot |-> WorkspaceRoot, tsconfigPaths |-> t, baseUrl |-> b,
     webpackAliases |-> w, timestamp |-> 0] :
      t \in TsconfigTables, b \in BaseUrls, w \in WebpackTables }

\* alias.ts 187-233 for the snapshot loadAliasesForRoot returned.
ResolveAliasCall ==
  /\ aliasOut = << >>
  /\ aliasOut' = << resolveAliasToFiles(aliasSpec, aliasEntry, aliasEntry.workspaceRoot) >>
  /\ UNCHANGED << aliasSpec, aliasEntry >>
  /\ UNCHANGED << orchVars, cacheVars, debugVars, walkVars, openVars >>

InitAlias ==
  /\ aliasSpec \in AliasSpecs
  /\ aliasEntry \in AliasSnapshots
  /\ aliasOut = << >>
  /\ IdleOrch
  /\ IdleCache
  /\ IdleDebug
  /\ IdleWalk
  /\ IdleOpen

NextAlias == ResolveAliasCall

SpecAlias == InitAlias /\ [][NextAlias]_vars

(***************************************************************************)
(* resolveAliasToFiles as a whole (alias.ts 172-234): the snapshot is      *)
(* loaded for the requesting file, then the specifier is matched.          *)
(***************************************************************************)
ResolveSpecs == {"@/u", "lib"}

ResolveTsPaths == {"/p/tsconfig.json", "/p/k/tsconfig.json"}

ResolveResources == {undefined, "/p/k/a.ts"}

\* Decodable configs whose "@/*" entry is not a list of strings.
TsNull ==
  [ok |-> TRUE, baseUrl |-> "", paths |-> << [key |-> "@/*", vals |-> JsonNull] >>]

TsNumber ==
  [ok |-> TRUE, baseUrl |-> "", paths |-> << [key |-> "@/*", vals |-> JsonNumber] >>]

TsString ==
  [ok |-> TRUE, baseUrl |-> "", paths |-> << [key |-> "@/*", vals |-> JsonString("s/*")] >>]

ResolveTsContents == {TsV1, TsV2, TsNull, TsNumber, TsString}

\* The webpack.config.js of the root: missing, without an alias block, with
\* an alias literal that does not parse, with one that does.
WpFiles ==
  { [kind |-> "missing", aliases |-> << >>],
    [kind |-> "noAlias", aliases |-> << >>],
    [kind |-> "unparseable", aliases |-> << [key |-> "@", target |-> "w"] >>],
    [kind |-> "ok", aliases |-> << [key |-> "@", target |-> "w"] >>] }

\* alias.ts 186-233: loadAliasesForRoot has returned to resolveAliasToFiles,
\* which matches the specifier against the snapshot and returns.
ResolveAfterLoad(c) ==
  /\ loads[c].pc = "done"
  /\ loads' = [loads EXCEPT ![c].pc = "resolved"]
  /\ aliasEntry' = loads[c].entry
  /\ aliasOut' = << resolveAliasToFiles(aliasSpec, loads[c].entry, WorkspaceRoot) >>
  /\ UNCHANGED << now, ticks, edits, started, tsFiles, wpFile, lastEdit, cache, aliasSpec >>
  /\ UNCHANGED << orchVars, debugVars, walkVars, openVars >>

InitResolve ==
  /\ now = 0
  /\ ticks = 0
  /\ edits = 0
  /\ started = 0
  /\ \E S \in SUBSET ResolveTsPaths :
       /\ tsFiles \in [S -> ResolveTsContents]
       /\ lastEdit = [q \in S |-> -1]
  /\ wpFile \in WpFiles
  /\ cache = << >>
  /\ loads = [c \in Callers |-> IdleFrame]
  /\ aliasSpec \in ResolveSpecs
  /\ aliasEntry = NoSnapshot
  /\ aliasOut = << >>
  /\ IdleOrch
  /\ IdleDebug
  /\ IdleWalk
  /\ IdleOpen

NextResolve ==
  \/ \E c \in Callers, r \in ResolveResources : LoadStart(c, r)
  \/ \E c \in Callers : LoadTsconfigReturns(c)
  \/ \E c \in Callers : LoadWebpackReturns(c)
  \/ \E c \in Callers : ResolveAfterLoad(c)

SpecResolve == InitResolve /\ [][NextResolve]_vars

\* What the matcher returns for the config the call uses when no bundler
\* config exists.
WithoutBundler(f) ==
  LET ts == IF f.tsconfigPath # undefined THEN loadTsconfig(f.tsconfigPath, tsFiles)
            ELSE EmptyTs
  IN resolveAliasToFiles(aliasSpec,
       [workspaceRoot |-> WorkspaceRoot, tsconfigPaths |-> ts.paths,
        baseUrl |-> ts.baseUrl, webpackAliases |-> << >>, timestamp |-> 0],
       WorkspaceRoot)

\* C12: with a bundler config that is missing, has no alias block or has an
\* alias literal that does not parse, the snapshot holds no bundler aliases
\* and resolveAliasToFiles returns exactly the path-mapping candidates it
\* returns when no bundler config exists.
C12_MalformedBundlerConfigIsIgnored ==
  \A c \in Callers :
    (loads[c].pc = "resolved" /\ wpFile.kind # "ok") =>
      /\ loads[c].entry.webpackAliases = << >>
      /\ aliasOut = << WithoutBundler(loads[c]) >>

\* A call with an alias literal that does not parse has returned the
\* candidate of the path mapping "@/*": ["s/*"] of the root config.
C12_Witness ==
  \E c \in Callers :
    /\ loads[c].pc = "resolved"
    /\ wpFile.kind = "unparseable"
    /\ loads[c].tsconfigPath = "/p/tsconfig.json"
    /\ aliasSpec = "@/u"
    /\ aliasOut = << Returned(<< "/p/s/u" >>) >>

\* C19: when the config in use lies in a directory other than the project
\* root and declares no baseUrl, a mapping target that is not absolute is
\* resolved against the directory of that config file.
C19_TargetsResolveAgainstConfigDir ==
  \A c \in Callers :
    LET f == loads[c]
    IN (/\ f.pc = "resolved"
        /\ f.tsconfigPath # undefined
        /\ pathDirname(f.tsconfigPath) # WorkspaceRoot
        /\ f.entry.baseUrl = undefined)
       => \A i \in 1..Len(f.entry.tsconfigPaths) :
            LET e == f.entry.tsconfigPaths[i]
            IN (/\ e.key = "@/*"
                /\ e.vals.kind = "list"
                /\ StartsWith(aliasSpec, "@/"))
               => \A j \in 1..Len(e.vals.items) :
                    LET v == e.vals.items[j]
                        suffix == Slice(aliasSpec, 3, Len(aliasSpec))
                        want == pathResolve(pathDirname(f.tsconfigPath),
                                            Slice(v, 1, Len(v) - 1) \o suffix)
                    IN (~pathIsAbsolute(v) /\ EndsWith(v, "*")) =>
                         /\ ~aliasOut[1].threw
                         /\ \E m \in 1..Len(aliasOut[1].value) : aliasOut[1].value[m] = want

\* C20: for a decodable config whose paths entry is not a list of strings
\* (null, a number, a string) resolveAliasToFiles completes without raising,
\* the path mapping contributes nothing and the bundler-alias candidates
\* are returned.
C20_MalformedPathsAreAbsorbed ==
  \A c \in Callers :
    LET f == loads[c]
    IN (/\ f.pc = "resolved"
        /\ \E i \in 1..Len(f.entry.tsconfigPaths) :
             f.entry.tsconfigPaths[i].vals.kind # "list")
       => /\ ~aliasOut[1].threw
          /\ aliasOut[1].value =
               Uniq(MapNormalize(WebpackCandidates(WebpackOrder(f.entry.webpackAliases),
                                                   aliasSpec)))

\* A path as the cache is said to hold it: absolute and equal to its
\* normal form.
AbsoluteAndNormalized(p) == pathIsAbsolute(p) /\ pathNormalize(p) = p

\* C21: every path held in a stored cache entry (the baseUrl, every
\* bundler-alias target and every path-mapping replacement) is absolute and
\* normalized; no entry holds a relative value as the config file has it.
C21_StoredPathsAreAbsolute ==
  \A k \in DOMAIN cache :
    LET e == cache[k]
    IN /\ e.baseUrl # undefined => AbsoluteAndNormalized(e.baseUrl)
       /\ \A i \in 1..Len(e.webpackAliases) :
            AbsoluteAndNormalized(e.webpackAliases[i].target)
       /\ \A i \in 1..Len(e.tsconfigPaths) :
            e.tsconfigPaths[i].vals.kind = "list" =>
              \A j \in 1..Len(e.tsconfigPaths[i].vals.items) :
                AbsoluteAndNormalized(e.tsconfigPaths[i].vals.items[j])

(***************************************************************************)
(* Properties of the alias matcher.                                        *)
(***************************************************************************)
\* A string whose only '*' is its last character, and what precedes it.
TrailingStar(s) == s # "" /\ IndexOf(s, "*") = Len(s)

Stem(s) == Slice(s, 1, Len(s) - 1)

WildcardBase ==
  IF aliasEntry.baseUrl # undefined THEN aliasEntry.baseUrl ELSE aliasEntry.workspaceRoot

\* C9: for every path-mapping entry k* with a replacement v* and every
\* specifier k+suffix, the sequence resolveAliasToFiles returns contains
\* resolve(baseUrl if declared, else the project root, v+suffix).
C9_WildcardCandidateIncluded ==
  \A n \in 1..Len(aliasOut) :
    \A i \in 1..Len(aliasEntry.tsconfigPaths) :
      LET e == aliasEntry.tsconfigPaths[i]
      IN (/\ TrailingStar(e.key)
          /\ e.vals.kind = "list"
          /\ StartsWith(aliasSpec, Stem(e.key)))
         => \A j \in 1..Len(e.vals.items) :
              TrailingStar(e.vals.items[j]) =>
                LET suffix == Slice(aliasSpec, Len(e.key), Len(aliasSpec))
                    want == pathResolve(WildcardBase, Stem(e.vals.items[j]) \o suffix)
                IN /\ ~aliasOut[n].threw
                   /\ \E m \in 1..Len(aliasOut[n].value) : aliasOut[n].value[m] = want

\* The position of x in a list without repetitions (0 when not in it).
FirstPos(list, x) ==
  IF \E m \in 1..Len(list) : list[m] = x
    THEN CHOOSE m \in 1..Len(list) : list[m] = x
    ELSE 0

\* The candidates one entry of a table gives for the specifier.
WebpackDerived(e) ==
  LET r == WebpackCandidates(<<e>>, aliasSpec)
  IN {pathNormalize(r[m]) : m \in 1..Len(r)}

TsconfigDerived(e) ==
  LET r == TsconfigEntryCandidates(e, aliasSpec, aliasEntry, aliasEntry.workspaceRoot)
  IN IF r.threw THEN {} ELSE {pathNormalize(r.value[m]) : m \in 1..Len(r.value)}

\* The entries, of either table, that give the candidate x.
Derivations(x) ==
  {<<"webpack", i>> : i \in {k \in 1..Len(aliasEntry.webpackAliases) :
                               x \in WebpackDerived(aliasEntry.webpackAliases[k])}}
  \cup
  {<<"tsconfig", i>> : i \in {k \in 1..Len(aliasEntry.tsconfigPaths) :
                                x \in TsconfigDerived(aliasEntry.tsconfigPaths[k])}}

\* In a table, a candidate of a longer key comes before a candidate of a
\* shorter key (for candidates that one entry only gives).
LongerKeyFirst(entries, Derived(_), out) ==
  \A i, j \in 1..Len(entries) :
    Len(entries[i].key) > Len(entries[j].key) =>
      \A a \in Derived(entries[i]), b \in Derived(entries[j]) :
        (Cardinality(Derivations(a)) = 1 /\ Cardinality(Derivations(b)) = 1) =>
          /\ FirstPos(out, a) > 0
          /\ FirstPos(out, a) < FirstPos(out, b)

\* C10: within one config source, when several keys match the specifier,
\* the candidates of a longer key come before the candidates of a shorter
\* key in what resolveAliasToFiles returns.
C10_LongestKeyFirst ==
  \A n \in 1..Len(aliasOut) :
    ~aliasOut[n].threw =>
      /\ LongerKeyFirst(aliasEntry.webpackAliases, WebpackDerived, aliasOut[n].value)
      /\ LongerKeyFirst(aliasEntry.tsconfigPaths, TsconfigDerived, aliasOut[n].value)

\* Aliases '@' -> A and '@/ui' -> B, listed in that order, and the
\* specifier '@/ui/button': the candidate of B is returned before that of A.
C10_Witness ==
  /\ aliasSpec = "@/ui/button"
  /\ aliasEntry.webpackAliases =
       << [key |-> "@", target |-> "/p/A"], [key |-> "@/ui", target |-> "/p/B"] >>
  /\ aliasEntry.tsconfigPaths = << >>
  /\ aliasOut = << Returned(<< "/p/B/button", "/p/A/ui/button" >>) >>

\* Every candidate pushed, in the order pushed, normalized.
PushedCandidates ==
  LET ts == TsconfigCandidates(TsconfigOrder(aliasEntry.tsconfigPaths), aliasSpec,
                               aliasEntry, aliasEntry.workspaceRoot)
  IN MapNormalize(WebpackCandidates(WebpackOrder(aliasEntry.webpackAliases), aliasSpec)
                    \o ts.value)

AllWebpackDerived ==
  UNION {WebpackDerived(aliasEntry.webpackAliases[i]) :
           i \in 1..Len(aliasEntry.webpackAliases)}

AllTsconfigDerived ==
  UNION {TsconfigDerived(aliasEntry.tsconfigPaths[i]) :
           i \in 1..Len(aliasEntry.tsconfigPaths)}

\* C14: resolveAliasToFiles returns the bundler-alias candidates before the
\* path-mapping candidates, no path twice, each path at the position of its
\* first occurrence in the concatenated list.
C14_BundlerFirstNoDuplicates ==
  \A n \in 1..Len(aliasOut) :
    ~aliasOut[n].threw =>
      LET out == aliasOut[n].value
      IN /\ \A i, j \in 1..Len(out) : i # j => out[i] # out[j]
         /\ {out[i] : i \in 1..Len(out)} = AllWebpackDerived \cup AllTsconfigDerived
         /\ \A a \in AllWebpackDerived, b \in AllTsconfigDerived \ AllWebpackDerived :
              FirstPos(out, a) < FirstPos(out, b)
         /\ \A i, j \in 1..Len(out) :
              i < j => FirstPos(PushedCandidates, out[i]) < FirstPos(PushedCandidates, out[j])

\* Both bundler aliases and one path mapping give /p/src/ui/button: it is
\* returned once, first, and the other path-mapping candidates follow.
C14_Witness ==
  /\ aliasSpec = "@/ui/button"
  /\ aliasEntry.baseUrl = undefined
  /\ Len(aliasEntry.webpackAliases) = 2
  /\ Len(aliasEntry.tsconfigPaths) = 2
  /\ aliasOut = << Returned(<< "/p/src/ui/button", "/p/ui/button", "/p/gen/ui/button" >>) >>

(***************************************************************************)
(* The match boundaries of resolveAliasToFiles (alias.ts 188-229): the     *)
(* matcher is called on specifiers that lie on either side of each key's   *)
(* boundary.  Every entry of these tables leads to a directory of its own, *)
(* so that no two keys give the same candidate.                            *)
(***************************************************************************)
MatchSpecs ==
  {"@app", "@app/x", "@app/x/y", "@application/x", "@appx",
   "lib", "lib/x", "libx", "a.b", "aXb", "a.b/c", "aXb/c", "a.bXc",
   "pre-mid-suf", "pre--suf", "pre-suf", "pre-mid-sufx", "xpre-mid-suf",
   "pre-a\nb-suf"}

MatchWebpackTables ==
  { << >>,
    << [key |-> "@app", target |-> "/p/A"] >>,
    << [key |-> "@app", target |-> "/p/A"], [key |-> "@app/x", target |-> "/p/B"],
       [key |-> "lib", target |-> "/p/L"] >> }

MatchTsconfigTables ==
  { << >>,
    << [key |-> "lib", vals |-> JsonList(<<"v/lib">>)],
       [key |-> "a.b", vals |-> JsonList(<<"e", "f">>)] >>,
    << [key |-> "a.b/*", vals |-> JsonList(<<"d/*">>)] >>,
    << [key |-> "pre-*-suf", vals |-> JsonList(<<"m/*", "n/*">>)],
       [key |-> "*", vals |-> JsonList(<<"any/*">>)] >> }

MatchSnapshots ==
  { [workspaceRoot |-> WorkspaceRoot, tsconfigPaths |-> t, baseUrl |-> undefined,
     webpackAliases |-> w, timestamp |-> 0] :
      t \in MatchTsconfigTables, w \in MatchWebpackTables }

InitMatch ==
  /\ aliasSpec \in MatchSpecs
  /\ aliasEntry \in MatchSnapshots
  /\ aliasOut = << >>
  /\ IdleOrch
  /\ IdleCache
  /\ IdleDebug
  /\ IdleWalk
  /\ IdleOpen

NextMatch == ResolveAliasCall

SpecMatch == InitMatch /\ [][NextMatch]_vars

\* The specifier is the bundler key or lies under it.
BundlerKeyCovers(key, s) == s = key \/ StartsWith(s, key \o "/")

\* The specifier is prefix + text + suffix for the key prefix*suffix, the
\* text free of line terminators; a key without '*' covers itself only.
PathKeyCovers(key, s) ==
  LET star == IndexOf(key, "*")
      prefix == Slice(key, 1, star - 1)
      suffix == Slice(key, star + 1, Len(key))
  IN IF star = 0 THEN s = key
     ELSE /\ Len(s) >= Len(prefix) + Len(suffix)
          /\ StartsWith(s, prefix)
          /\ EndsWith(s, suffix)
          /\ \A i \in (Len(prefix) + 1)..(Len(s) - Len(suffix)) :
               CharAt(s, i) \notin LineTerminators

\* The entries of the snapshot whose key covers the specifier, a path
\* mapping counted once for each of its replacements.
CoveringEntries(e, s) ==
  { <<"bundler", i, 1>> : i \in { n \in 1..Len(e.webpackAliases) :
                                    BundlerKeyCovers(e.webpackAliases[n].key, s) } }
  \cup
  UNION { { <<"paths", i, j>> : j \in 1..Len(e.tsconfigPaths[i].vals.items) } :
          i \in { n \in 1..Len(e.tsconfigPaths) :
                    PathKeyCovers(e.tsconfigPaths[n].key, s) } }

\* C22: a bundler key yields a candidate only when the specifier equals the
\* key or begins with key + "/", one candidate per such key; a path-mapping
\* key without '*' yields candidates only when the specifier equals it; a
\* key with one '*' matches only whole specifiers prefix + text + suffix,
\* every other character of the key taken literally.  Hence the matcher
\* returns as many candidates as there are covering entries.
C22_MatchBoundaries ==
  aliasOut # << >> =>
    /\ ~aliasOut[1].threw
    /\ Len(aliasOut[1].value) = Cardinality(CoveringEntries(aliasEntry, aliasSpec))

\* "@application/x" against the bundler key "@app" gives no candidate, and
\* "aXb/c" against the path mapping "a.b/*" gives none either.
C22_Witness ==
  /\ aliasOut = << Returned(<< >>) >>
  /\ aliasSpec \in {"@application/x", "aXb/c"}
  /\ Len(aliasEntry.webpackAliases) = 1
  /\ Len(aliasEntry.tsconfigPaths) = 1
  /\ aliasEntry.tsconfigPaths[1].key = "a.b/*"

(***************************************************************************)
(* The termination specification: findFileForImport with the walk of       *)
(* findNearestTsconfig (alias.ts 22-52) followed one stat at a time, under *)
(* the assumption that every call issued to the filesystem or to the       *)
(* workspace completes or fails: a step that can be taken is taken.        *)
(***************************************************************************)
\* The stat of the walk: a failing stat is "not found" (alias.ts 28-34).
TsconfigStat(flt, p) == "stat" \notin flt /\ p \in DOMAIN tsFiles

\* alias.ts 137-143, 23: resolveAliasToFiles has called loadAliasesForRoot,
\* which starts the walk when there is a requesting file.
WalkStarts ==
  /\ pc = "alias"
  /\ IF documentUri = undefined
       THEN /\ nearest' = pathJoin(WorkspaceRoot, "tsconfig.json")
            /\ pc' = "loading"
            /\ UNCHANGED << walkDir, visited >>
       ELSE /\ walkDir' = pathDirname(documentUri)
            /\ visited' = << >>
            /\ nearest' = undefined
            /\ pc' = "walk"
  /\ UNCHANGED << files, loaded, faults, rawSpec, documentUri, callNo, spec, base,
                  pending, race, remaining, aliasCalled, wsCalled, outcomes >>
  /\ UNCHANGED << cacheVars, aliasVars, debugVars, openVars >>

\* alias.ts 26-41: the loop condition and one turn of the loop.
WalkStep ==
  /\ pc = "walk"
  /\ IF Len(walkDir) > 1 /\ StartsWith(walkDir, WorkspaceRoot)
       THEN LET tsconfigPath == pathJoin(walkDir, "tsconfig.json")
                parentDir == pathDirname(walkDir)
            IN /\ visited' = Append(visited, walkDir)
               /\ IF TsconfigStat(faults, tsconfigPath)
                    THEN /\ nearest' = tsconfigPath
                         /\ pc' = "loading"
                         /\ UNCHANGED walkDir
                  ELSE IF parentDir = walkDir
                    THEN /\ pc' = "walkRoot"
                         /\ UNCHANGED << walkDir, nearest >>
                  ELSE /\ walkDir' = parentDir
                       /\ pc' = "walk"
                       /\ UNCHANGED nearest
       ELSE /\ pc' = "walkRoot"
            /\ UNCHANGED << walkDir, visited, nearest >>
  /\ UNCHANGED << files, loaded, faults, rawSpec, documentUri, callNo, spec, base,
                  pending, race, remaining, aliasCalled, wsCalled, outcomes >>
  /\ UNCHANGED << cacheVars, aliasVars, debugVars, openVars >>

\* alias.ts 44-51: the config of the project root is looked for.
WalkRootCheck ==
  /\ pc = "walkRoot"
  /\ nearest' = IF TsconfigStat(faults, pathJoin(WorkspaceRoot, "tsconfig.json"))
                  THEN pathJoin(WorkspaceRoot, "tsconfig.json")
                  ELSE undefined
  /\ pc' = "loading"
  /\ UNCHANGED << walkDir, visited >>
  /\ UNCHANGED << files, loaded, faults, rawSpec, documentUri, callNo, spec, base,
                  pending, race, remaining, aliasCalled, wsCalled, outcomes >>
  /\ UNCHANGED << cacheVars, aliasVars, debugVars, openVars >>

TerminationFiles == {"/p/s/u.ts", "/p/t/u.ts"}

TerminationSpecs == {"./u", "@/u", "lib"}

TerminationDocuments == {undefined, "/p/s/a.ts", "/p/s/k/a.ts", "/q/a.ts"}

TerminationTsPaths == {"/p/tsconfig.json", "/p/s/tsconfig.json"}

TerminationFaultSets == {{}, {"stat"}, {"findFiles"}}

InitTerminates ==
  /\ files \in SUBSET TerminationFiles
  /\ loaded \in {NoSnapshot, MappedSnapshot}
  /\ faults \in TerminationFaultSets
  /\ rawSpec \in TerminationSpecs
  /\ documentUri \in TerminationDocuments
  /\ callNo = 1
  /\ pc = "idle"
  /\ spec = ""
  /\ base = ""
  /\ pending = {}
  /\ race = RacePending
  /\ remaining = << >>
  /\ aliasCalled = FALSE
  /\ wsCalled = FALSE
  /\ outcomes = << >>
  /\ now = 0
  /\ ticks = 0
  /\ edits = 0
  /\ started = 0
  /\ \E S \in SUBSET TerminationTsPaths :
       /\ tsFiles = [q \in S |-> TsV1]
       /\ lastEdit = [q \in S |-> -1]
  /\ wpFile = [kind |-> "missing", aliases |-> << >>]
  /\ cache = << >>
  /\ loads = << >>
  /\ IdleAlias
  /\ IdleDebug
  /\ IdleWalk
  /\ IdleOpen

NextTerminates ==
  \/ Call
  \/ \E i \in 1..Len(Extensions) : StatCompletes(i)
  \/ RelativeProbeReturns
  \/ WalkStarts
  \/ WalkStep
  \/ WalkRootCheck
  \/ AliasReturnsFrom("loading")
  \/ AliasProbeReturns
  \/ FindFilesReturns
  \/ CallAgain

\* A step of the call under way can be taken: the guards of the actions of
\* NextTerminates.  A probe whose checks have all completed can go on only
\* once its race is settled.
CanStep ==
  \/ pc \in {"idle", "alias", "walk", "walkRoot", "loading", "findFiles"}
  \/ pc \in {"probeRelative", "probeAlias"} /\ (pending # {} \/ race.state # "pending")
  \/ pc = "done" /\ callNo < MaxCalls

\* Every existence check that was issued completes or fails, the code
\* after an await that has returned runs, and in general a step that can
\* be taken is taken: weak fairness of NextTerminates, with the enabling
\* condition written out.
CallsComplete ==
  /\ WF_vars(\E i \in 1..Len(Extensions) : StatCompletes(i))
  /\ WF_vars(RelativeProbeReturns)
  /\ WF_vars(AliasProbeReturns)
  /\ ([]<>(~CanStep) \/ []<><<NextTerminates>>_vars)

SpecTerminates == InitTerminates /\ [][NextTerminates]_vars /\ CallsComplete

\* The walk has looked into directories on the chain above the requesting
\* file only, into none of them twice, and into none that does not begin
\* with the project root.
WalkIsBounded ==
  /\ \A i \in 1..Len(visited) :
       /\ visited[i] \in DirChain(pathDirname(documentUri))
       /\ StartsWith(visited[i], WorkspaceRoot)
       /\ Len(visited[i]) > 1
  /\ \A i, j \in 1..Len(visited) : i # j => visited[i] # visited[j]

\* C25: every findFileForImport call eventually completes when each call it
\* issues completes or fails: the walk for the nearest config visits each
\* ancestor directory at most once and stops at the project root or the
\* filesystem root, and the probe settles both when some suffix exists and
\* when every existence check fails.
C25_EveryCallCompletes ==
  /\ []WalkIsBounded
  /\ (pc # "done") ~> (pc = "done")

\* A call for "@/u" from /p/s/k/a.ts has walked up three directories,
\* probed both candidates with every existence check failing, searched the
\* workspace and completed.
C25_Witness ==
  /\ pc = "done"
  /\ rawSpec = "@/u"
  /\ documentUri = "/p/s/k/a.ts"
  /\ tsFiles = << >>
  /\ files = {}
  /\ visited = << "/p/s/k", "/p/s", "/p" >>
  /\ Len(outcomes) >= 1
  /\ outcomes[1].wsCalled
  /\ outcomes[1].value = undefined

(***************************************************************************)
(* The concurrency specification: two callers of loadAliasesForRoot for    *)
(* the same key, whose calls interleave at the awaits, while time passes   *)
(* and the config is edited.                                               *)
(***************************************************************************)
ConcurrentCallers == {"a", "b"}

InitConcurrent ==
  /\ now = 0
  /\ ticks = 0
  /\ edits = 0
  /\ started = 0
  /\ tsFiles = [q \in CacheTsPaths |-> TsV1]
  /\ lastEdit = [q \in CacheTsPaths |-> -1]
  /\ wpFile = [kind |-> "missing", aliases |-> << >>]
  /\ cache = << >>
  /\ loads = [c \in ConcurrentCallers |-> IdleFrame]
  /\ IdleOrch
  /\ IdleAlias
  /\ IdleDebug
  /\ IdleWalk
  /\ IdleOpen

NextConcurrent ==
  \/ \E c \in ConcurrentCallers : LoadStart(c, undefined)
  \/ \E c \in ConcurrentCallers : LoadTsconfigReturns(c)
  \/ \E c \in ConcurrentCallers : LoadWebpackReturns(c)
  \/ \E d \in TickSteps : Tick(d)
  \/ \E q \in CacheTsPaths, contents \in TsContents : EditTsconfig(q, contents)

SpecConcurrent == InitConcurrent /\ [][NextConcurrent]_vars

\* The entry holds what the config file under its key holds now.
HoldsCurrentContents(e, k) ==
  /\ e.tsconfigPaths = loadTsconfig(k, tsFiles).paths
  /\ e.baseUrl = loadTsconfig(k, tsFiles).baseUrl

\* C27: under any interleaving of concurrent loadAliasesForRoot calls for
\* the same key, the entry stored under the key is never replaced by an
\* entry with an older timestamp, nor by one whose contents were read
\* before those of the entry it replaces (an entry that holds the file's
\* current contents is not replaced by one that does not).
C27_Step ==
  \A k \in DOMAIN cache :
    /\ k \in DOMAIN cache'
    /\ cache'[k].timestamp >= cache[k].timestamp
    /\ (cache'[k] # cache[k] /\ tsFiles' = tsFiles /\ HoldsCurrentContents(cache[k], k))
         => HoldsCurrentContents(cache'[k], k)

C27_NewerEntryIsNotOverwritten == [][C27_Step]_vars

(***************************************************************************)
(* The nearest-config walk for requesting files outside the project root:  *)
(* in a sibling directory whose name begins with the root's name, and in   *)
(* an unrelated directory (alias.ts 177-183 gives such a file the first    *)
(* workspace folder as its root).                                          *)
(***************************************************************************)
OutsideTsPaths == {"/p/tsconfig.json", "/p-o/tsconfig.json", "/p-o/k/tsconfig.json"}

OutsideResources == {"/p/a.ts", "/p-o/a.ts", "/p-o/k/a.ts", "/q/a.ts"}

InitOutside ==
  /\ now = 0
  /\ ticks = 0
  /\ edits = 0
  /\ started = 0
  /\ \E S \in SUBSET OutsideTsPaths :
       /\ tsFiles \in [S -> {TsV1, TsV2}]
       /\ lastEdit = [q \in S |-> -1]
  /\ wpFile = [kind |-> "missing", aliases |-> << >>]
  /\ cache = << >>
  /\ loads = [c \in Callers |-> IdleFrame]
  /\ IdleOrch
  /\ IdleAlias
  /\ IdleDebug
  /\ IdleWalk
  /\ IdleOpen

NextOutside ==
  \/ \E c \in Callers, r \in OutsideResources : LoadStart(c, r)
  \/ \E c \in Callers : LoadTsconfigReturns(c)
  \/ \E c \in Callers : LoadWebpackReturns(c)

SpecOutside == InitOutside /\ [][NextOutside]_vars

\* The directory is the project root or lies beneath it.
WithinRoot(d) == d = WorkspaceRoot \/ StartsWith(d, WorkspaceRoot \o "/")

\* C28: the nearest-config walk never selects a config file outside the
\* project root: whatever the requesting file (one in a sibling directory
\* whose name begins with the root's name included), the path that
\* findNearestTsconfig returns is in the root directory or beneath it.
C28_ConfigIsWithinRoot ==
  \A c \in Callers :
    (/\ loads[c].pc # "idle"
     /\ loads[c].resourcePath # undefined
     /\ loads[c].tsconfigPath # undefined)
    => WithinRoot(pathDirname(loads[c].tsconfigPath))

(***************************************************************************)
(* The open command, 'open-import-file.open' (extension.ts 14-17, 35-55),  *)
(* and the helpers of utils it calls.  A URI is a record of its scheme,    *)
(* authority and path; queries and fragments do not occur in the inputs.   *)
(***************************************************************************)
\* The absent URI (normalizeToUri's undefined): no vscode.Uri has an empty
\* scheme.
NoUri == [scheme |-> "", authority |-> "", path |-> ""]

\* The escape sequences the inputs use.
PercentEscapes == [e \in {"%2F", "%20", "%3A"} |->
                     IF e = "%2F" THEN "/" ELSE IF e = "%20" THEN " " ELSE ":"]

\* F(x) with x evaluated once, however often F uses its argument.
Once(x, F(_)) == CHOOSE r \in { F(v) : v \in {x} } : TRUE

\* Percent decoding of s from position i on, left to right; a '%' that starts
\* no escape sequence is kept (the decoding Uri.parse applies to a path).
RECURSIVE PercentDecodeFrom(_, _)
PercentDecodeFrom(s, i) ==
  IF i > Len(s) THEN ""
  ELSE IF Slice(s, i, i + 2) \in DOMAIN PercentEscapes
    THEN PercentEscapes[Slice(s, i, i + 2)] \o PercentDecodeFrom(s, i + 3)
  ELSE CharAt(s, i) \o PercentDecodeFrom(s, i + 1)

PercentDecode(s) == PercentDecodeFrom(s, 1)

\* The body of decodeURIComponent: it raises for a '%' that starts no
\* escape sequence.
DecodeStrict(s) ==
  IF \E i \in 1..Len(s) :
       CharAt(s, i) = "%" /\ Slice(s, i, i + 2) \notin DOMAIN PercentEscapes
    THEN Thrown
  ELSE Returned(PercentDecode(s))

\* decodeURIComponent(s) (part_005 46).
decodeURIComponent(s) == Once(s, DecodeStrict)

\* The characters a scheme may hold, of those the inputs use.
SchemeChars == {"a", "b", "c", "e", "f", "h", "i", "l", "p", "s", "t"}

\* Uri.parse, first step: the scheme is what precedes the first ':' when no
\* '/' comes before it and 'file' otherwise.
UriSplitScheme(s) ==
  LET colon == IndexOf(s, ":")
      slash == IndexOf(s, "/")
      hasScheme == colon > 1 /\ (slash = 0 \/ colon < slash)
  IN [scheme |-> IF hasScheme THEN Slice(s, 1, colon - 1) ELSE "file",
      rest |-> IF hasScheme THEN Slice(s, colon + 1, Len(s)) ELSE s]

\* Uri.parse, second step: an authority follows '//' and ends at the next
\* '/', where the path starts.
UriSplitAuthority(p) ==
  LET afterSlashes == Slice(p.rest, 3, Len(p.rest))
      authorityEnd == IndexOf(afterSlashes, "/")
  IN IF ~StartsWith(p.rest, "//")
       THEN [scheme |-> p.scheme, authority |-> "", path |-> p.rest]
     ELSE IF authorityEnd = 0
       THEN [scheme |-> p.scheme, authority |-> afterSlashes, path |-> ""]
     ELSE [scheme |-> p.scheme,
           authority |-> Slice(afterSlashes, 1, authorityEnd - 1),
           path |-> Slice(afterSlashes, authorityEnd, Len(afterSlashes))]

\* Uri.parse, third step: the path is decoded and made to start with '/'.
UriDecodePath(p) ==
  [scheme |-> p.scheme, authority |-> p.authority,
   path |-> IF PercentDecode(p.path) = "" THEN "/"
            ELSE IF CharAt(PercentDecode(p.path), 1) # "/"
              THEN "/" \o PercentDecode(p.path)
            ELSE PercentDecode(p.path)]

\* Uri.parse, last step: it raises for a scheme with illegal characters and
\* for a path that starts with '//' where there is no authority.
UriValidate(uri) ==
  IF \E i \in 1..Len(uri.scheme) : CharAt(uri.scheme, i) \notin SchemeChars
    THEN Thrown
  ELSE IF uri.authority = "" /\ StartsWith(uri.path, "//") THEN Thrown
  ELSE Returned(uri)

\* vscode.Uri.parse(s) (part_005 40, 59), not strict.
UriParse(s) ==
  Once(Once(Once(Once(s, UriSplitScheme), UriSplitAuthority), UriDecodePath),
       UriValidate)

\* vscode.Uri.file(s) (part_005 54) of a POSIX path.
UriFile(s) == [scheme |-> "file", authority |-> "", path |-> s]

\* uri.toString() (extension.ts 46); the paths the inputs lead to hold no
\* character that it would encode.
UriToString(uri) == uri.scheme \o "://" \o uri.authority \o uri.path

\* The stripping of one layer of matching quotes (part_005 29-35).
StripQuotes(s) ==
  IF Len(s) >= 1 /\ (\/ (StartsWith(s, "\"") /\ EndsWith(s, "\""))
                     \/ (StartsWith(s, "'") /\ EndsWith(s, "'")))
    THEN Slice(s, 2, Len(s) - 1)
  ELSE s

\* The rest of normalizeToUri past its loop (part_005 52-63).
AfterDecodeLoop(s) ==
  IF StartsWith(s, "/") THEN UriFile(s)
  ELSE IF UriParse(s).threw THEN NoUri
  ELSE UriParse(s).value

\* One round of the loop of normalizeToUri (part_005 38-50) over the text
\* and the counter in r: the URI parsed when it has a scheme; otherwise the
\* text is decoded, which ends the loop when that raises.
RECURSIVE DecodeRound(_)
DecodeRound(r) ==
  IF r.i >= 3 THEN AfterDecodeLoop(r.s)
  ELSE IF ~UriParse(r.s).threw /\ UriParse(r.s).value.scheme # ""
    THEN UriParse(r.s).value
  ELSE IF decodeURIComponent(r.s).threw THEN AfterDecodeLoop(r.s)
  ELSE Once([s |-> decodeURIComponent(r.s).value, i |-> r.i + 1], DecodeRound)

DecodeLoop(s) == Once([s |-> s, i |-> 0], DecodeRound)

\* normalizeToUri(arg) (part_005 22-68).  An argument is a record of its
\* kind, its text when it is a string and its path when it is a Uri.
normalizeToUri(arg) ==
  IF arg.kind = "undefined" \/ (arg.kind = "string" /\ arg.text = "") THEN NoUri
  ELSE IF arg.kind = "uri" THEN UriFile(arg.path)
  ELSE IF arg.kind = "string" THEN DecodeLoop(StripQuotes(arg.text))
  ELSE NoUri

\* showErrorMessage(message) (part_005 87-89): the notifications shown so
\* far and this one.
showErrorMessage(shown, message) == Append(shown, "Open Import File: " \o message)

\* Variant: the handler has no catch clause, what is raised inside rejects
\* its promise.
OpenCatchRethrows(shown, e) == [messages |-> shown, outcome |-> "rejected"]

\* The catch clause of handleOpenCommand (extension.ts 52-54): what is
\* raised inside the try is shown and the handler returns normally.
handleOpenCommandCatch(shown, e) ==
  [messages |-> showErrorMessage(shown, "Unable to open file: " \o e),
   outcome |-> "resolved"]

\* workspace.fs.stat(uri) can fulfil (part_005 76): a file system entry is
\* there; only the local file system has a provider.
StatCanFulfil(uri) ==
  uri.scheme = "file" /\ uri.authority = "" /\ uri.path \in fsEntries

\* The command is invoked (extension.ts 14-17) and handleOpenCommand runs to
\* its first await (extension.ts 36-43): the argument is normalized, an
\* invalid one is reported; otherwise fileExists is awaited.
OpenCommandInvoked(arg) ==
  /\ openPc \in {"idle", "done"}
  /\ openArg' = arg
  /\ openUri' = normalizeToUri(arg)
  /\ existence' = << >>
  /\ opened' = << >>
  /\ IF normalizeToUri(arg) = NoUri
       THEN /\ messages' = showErrorMessage(<< >>, "Unable to open file: invalid URI")
            /\ openPc' = "done"
            /\ openOutcome' = "resolved"
       ELSE /\ messages' = << >>
            /\ openPc' = "stat"
            /\ openOutcome' = undefined
  /\ UNCHANGED fsEntries
  /\ UNCHANGED << orchVars, cacheVars, aliasVars, debugVars, walkVars >>

\* fileExists settles (part_005 74-81, extension.ts 43-51): true when stat
\* fulfilled, false when it rejected, as it does for a missing entry and may
\* for one that is there.  A missing file is reported; otherwise 'vscode.open'
\* is issued and awaited.
FileExistsReturns ==
  /\ openPc = "stat"
  /\ \E fulfilled \in {b \in BOOLEAN : b => StatCanFulfil(openUri)} :
       /\ existence' = << fulfilled >>
       /\ IF ~fulfilled
            THEN /\ messages' = showErrorMessage(messages,
                        "Unable to open file: " \o UriToString(openUri)
                          \o " (not found)")
                 /\ openPc' = "done"
                 /\ openOutcome' = "resolved"
                 /\ UNCHANGED opened
            ELSE /\ opened' = Append(opened, openUri)
                 /\ openPc' = "open"
                 /\ UNCHANGED << messages, openOutcome >>
  /\ UNCHANGED << fsEntries, openArg, openUri >>
  /\ UNCHANGED << orchVars, cacheVars, aliasVars, debugVars, walkVars >>

\* executeCommand('vscode.open', uri) settles (extension.ts 51-55): when it
\* rejected, the catch clause takes over.
OpenSettles ==
  /\ openPc = "open"
  /\ \E rejected \in BOOLEAN :
       IF rejected
         THEN LET caught == handleOpenCommandCatch(messages, "Error: cannot open")
              IN /\ messages' = caught.messages
                 /\ openOutcome' = caught.outcome
         ELSE /\ openOutcome' = "resolved"
              /\ UNCHANGED messages
  /\ openPc' = "done"
  /\ UNCHANGED << fsEntries, openArg, openUri, existence, opened >>
  /\ UNCHANGED << orchVars, cacheVars, aliasVars, debugVars, walkVars >>

\* The entries of the file system: a file, a directory, the workspace root.
OpenFsEntries == {"/p/s/u.ts", "/p/s/k", "/p"}

StringArg(t) == [kind |-> "string", text |-> t, path |-> ""]

\* The arguments the command is invoked with: nothing, an empty string, a
\* number, a plain object, a Uri, and strings: paths, quoted paths, URIs,
\* encoded and malformed text.
OpenArguments ==
  { [kind |-> k, text |-> "", path |-> ""] : k \in {"undefined", "number", "object"} }
    \cup { [kind |-> "uri", text |-> "", path |-> q] : q \in {"/p/s/u.ts", "/p/s/v.ts"} }
    \cup { StringArg(t) : t \in {"", "/p/s/u.ts", "'/p/s/u.ts'", "\"/p/s/k\"",
                                  "file:///p/s/u.ts", "u.ts", "a b:c",
                                  "%2Fp%2Fs%2Fu.ts", "/%2F/p", "https://x/y",
                                  "a b:%"} }

InitOpen ==
  /\ IdleOrch
  /\ IdleCache
  /\ IdleAlias
  /\ IdleDebug
  /\ IdleWalk
  /\ fsEntries \in SUBSET OpenFsEntries
  /\ openArg = [kind |-> "undefined", text |-> "", path |-> ""]
  /\ openPc = "idle"
  /\ openUri = NoUri
  /\ existence = << >>
  /\ messages = << >>
  /\ opened = << >>
  /\ openOutcome = undefined

NextOpen ==
  \/ \E arg \in OpenArguments : OpenCommandInvoked(arg)
  \/ FileExistsReturns
  \/ OpenSettles

SpecOpen == InitOpen /\ [][NextOpen]_vars

\* A missing file: the argument is a URI that stat cannot find.
MissingFile == normalizeToUri(openArg) # NoUri /\ ~StatCanFulfil(normalizeToUri(openArg))

\* C31: 'vscode.open' is issued only for the URI the argument normalizes to
\* and only after its existence check succeeded; a run that was given an
\* invalid argument or a missing file ends with exactly one error message and
\* nothing opened; and every run ends with the handler's promise fulfilled,
\* never rejected.
C31_OpenOnlyWhatExists ==
  /\ opened # << >> =>
       /\ normalizeToUri(openArg) # NoUri
       /\ opened = << normalizeToUri(openArg) >>
       /\ existence = << TRUE >>
       /\ StatCanFulfil(opened[1])
  /\ (openPc = "done" /\ (normalizeToUri(openArg) = NoUri \/ MissingFile)) =>
       /\ Len(messages) = 1
       /\ opened = << >>
  /\ openOutcome # "rejected"
  /\ openPc = "done" => openOutcome = "resolved"

\* C31 witness: a quoted path of an existing file was normalized, found and
\* opened, and the run ended without a message.
C31_Witness ==
  /\ openPc = "done"
  /\ openArg = StringArg("'/p/s/u.ts'")
  /\ opened = << UriFile("/p/s/u.ts") >>
  /\ existence = << TRUE >>
  /\ messages = << >>
  /\ openOutcome = "resolved"

====
